---- MODULE Spec2Model ----
(***************************************************************************)
(* Model of the instruction-cycle engines of the chips crate:              *)
(*   - the byte helpers of src/src/cpu.rs (execute_add, execute_daa),      *)
(*   - the two Intel 4004 engines (single-call I4004, split-phase CPU),    *)
(*   - the TMS0800 control unit and bit-serial ALU,                        *)
(*   - the HP A&R bit-serial arithmetic unit.                              *)
(* Every chip is one record variable; every pub method is one action.      *)
(* Each family of chips has its own specification (SpecArith, Spec4004,    *)
(* SpecStack, SpecTMS, SpecALU): the chips share no state.                 *)
(***************************************************************************)
EXTENDS Integers, Sequences, FiniteSets, TLC

VARIABLES
  arith,      \* last call of a byte helper of cpu.rs: its arguments and result
  engine,     \* which 4004 chip this run constructed: "I4004" or "CPU"
  i4004,      \* the single-call I4004 chip (src/src/cpu/i4004.rs)
  cpu,        \* the split-phase CPU chip (src/src/mcs4/cpu4004.rs)
  bus,        \* what the last 4004 call handed back to its caller
  trail,      \* history of the 4004 run: instructions begun, JMS/BBL executed
  alu,        \* last cycle of an arithmetic unit: its inputs and what it left
  tms,        \* the TMS0800 chip (src/src/tms0800)
  tmsenv,     \* around the TMS0800: the ROM words fetched so far, the last cycle
  sh64,       \* a Shifter64 register on its own (src/src/shifter.rs)
  pulsed,     \* a PulsedShifter16, the 4003 (src/src/shifter.rs)
  hprom,      \* the HP ROM chips of a board (src/src/rom/hp_rom.rs)
  indexer,    \* a register file (src/src/indexer.rs)
  cnt,        \* the HP control and timing chip (src/src/cpu/hp_cnt.rs)
  board,      \* the chips around a CPU in a scenario: memories, ports, steps taken
  f8,         \* the Fairchild F8 chips: F3850, F3851, F3852 (src/src/cpu/f3850.rs)
  i8080       \* the 8080 chip and the memory it runs on (src/src/cpu/i8080.rs)

vars == <<arith, engine, i4004, cpu, bus, trail, alu, tms, tmsenv,
          sh64, pulsed, hprom, indexer, cnt, board, f8, i8080>>

\* the chips modelled on their own, outside a CPU
peripherals == <<sh64, pulsed, hprom, indexer, cnt, board, f8, i8080>>

\* a chip nobody has constructed
Unbuilt == [built |-> FALSE]

IdleF8 == f8 = Unbuilt

Idle8080 == i8080 = Unbuilt

IdlePeripherals ==
  /\ sh64 = Unbuilt /\ pulsed = Unbuilt /\ hprom = Unbuilt
  /\ indexer = Unbuilt /\ cnt = Unbuilt /\ board = Unbuilt
  /\ f8 = Unbuilt /\ i8080 = Unbuilt

vars4004 == <<engine, i4004, cpu, bus, trail>>

Bytes == 0..255

Nibbles == 0..15

\* u8 `&` of the source, bit by bit
RECURSIVE BitAnd(_, _)
BitAnd(x, y) ==
  IF x = 0 \/ y = 0 THEN 0
  ELSE (x % 2) * (y % 2) + 2 * BitAnd(x \div 2, y \div 2)

\* u8 `|` of the source, bit by bit
RECURSIVE BitOr(_, _)
BitOr(x, y) ==
  IF x = 0 THEN y
  ELSE IF y = 0 THEN x
  ELSE (IF x % 2 = 1 \/ y % 2 = 1 THEN 1 ELSE 0) + 2 * BitOr(x \div 2, y \div 2)

(***************************************************************************)
(* Byte helpers, src/src/cpu.rs                                            *)
(***************************************************************************)

\* u8::overflowing_add: the wrapped sum and whether it wrapped
overflowing_add(x, y) ==
  IF x + y > 255 THEN <<x + y - 256, TRUE>> ELSE <<x + y, FALSE>>

\* u8::wrapping_add
wrapping_add(x, y) == overflowing_add(x, y)[1]

\* a plausible slip in execute_add: the nibble carry taken at 16, not above 9
execute_add_nibble16(byte1, byte2) ==
  LET r == overflowing_add(byte1, byte2)
      nibble_carry == BitAnd(byte1, 15) + BitAnd(byte2, 15) > 15
  IN  <<r[1], r[2], nibble_carry>>

\* execute_add: (result, carry, nibble carry)
execute_add(byte1, byte2) ==
  LET r == overflowing_add(byte1, byte2)
      nibble_carry == BitAnd(byte1, 15) + BitAnd(byte2, 15) > 9
  IN  <<r[1], r[2], nibble_carry>>

\* execute_daa: (byte, carry, nibble carry)
execute_daa(byte, carry, nibble_carry) ==
  LET low_adjust == nibble_carry \/ BitAnd(byte, 15) > 9
      byte1 == IF low_adjust THEN wrapping_add(byte, 6) ELSE byte
      high_adjust == carry \/ byte1 > 144
      byte2 == IF high_adjust THEN wrapping_add(byte1, 96) ELSE byte1
  IN  <<byte2, high_adjust, low_adjust>>

NoCall == [fn |-> "none"]

InitArith == arith = NoCall

\* a caller adds two bytes
ExecuteAdd ==
  \E a \in Bytes, b \in Bytes :
    arith' = [fn |-> "execute_add", a |-> a, b |-> b, out |-> execute_add(a, b)]

\* a caller decimal-adjusts a byte with given flags
ExecuteDaa ==
  \E x \in Bytes, c \in BOOLEAN, h \in BOOLEAN :
    arith' = [fn |-> "execute_daa", a |-> x, carry |-> c, nibble_carry |-> h,
              out |-> execute_daa(x, c, h)]

\* the doc test's sequence: execute_add, then execute_daa on what it returned
AddThenDaa ==
  \E a \in Bytes, b \in Bytes :
    LET s == execute_add(a, b)
    IN  arith' = [fn |-> "add_daa", a |-> a, b |-> b, sum |-> s,
                  out |-> execute_daa(s[1], s[2], s[3])]

(***************************************************************************)
(* Single-call Intel 4004, src/src/cpu/i4004.rs                            *)
(***************************************************************************)

ZeroRegs == [i \in 0..15 |-> 0]

ZeroStack == [i \in 0..3 |-> 0]

\* I4004::new (Default): every field zero
I4004_new ==
  [regs |-> ZeroRegs, carry |-> FALSE, test |-> FALSE, acc |-> 0,
   designated_index |-> 0, command_control |-> 0,
   stack |-> ZeroStack, effective_address |-> 0, push_count |-> 0,
   pc |-> 0, aborted |-> FALSE]

\* get_reg_pair: the even (high) and odd (low) register of the pair
get_reg_pair(opcode) ==
  LET index == (opcode \div 2) % 8
  IN  [high |-> index * 2, low |-> index * 2 + 1]

\* a jump that decodes its second byte as an opcode
jump_decoding(s, low_byte, high_nibble) ==
  IF low_byte \in 1..15 \/ low_byte \in {227, 255}
    THEN [s EXCEPT !.aborted = TRUE]
    ELSE [s EXCEPT !.pc = high_nibble * 256 + low_byte]

\* jump: ROMAddress with offset low_byte and chip index high_nibble
jump(s, low_byte, high_nibble) == [s EXCEPT !.pc = high_nibble * 256 + low_byte]

\* jump_near: replaces the 8-bit offset, keeps the chip index
jump_near(s, low_byte) == [s EXCEPT !.pc = (s.pc \div 256) * 256 + low_byte]

\* set_acc_carry
set_acc_carry(s, val) == [s EXCEPT !.carry = val > 15, !.acc = val % 16]

\* a next_rom_byte that does not mask the incremented address
next_rom_byte_unmasked(s) == [s EXCEPT !.pc = s.pc + 1]

\* next_rom_byte: the program counter moves on, wrapping after 0xFFF
next_rom_byte(s) == [s EXCEPT !.pc = (s.pc + 1) % 4096]

\* the JCN condition of both engines: c1 inverts, c2 acc = 0, c3 carry, c4 test
jcn_taken(s, modifier) ==
  LET c1 == (modifier \div 8) % 2 = 1
      c2 == (modifier \div 4) % 2 = 1
      c3 == (modifier \div 2) % 2 = 1
      c4 == modifier % 2 = 1
      condition == (c4 /\ s.test) \/ (c3 /\ s.carry) \/ (c2 /\ s.acc = 0)
  IN  (~c1 /\ condition) \/ (c1 /\ ~condition)

\* the slot a JMS writes: the stack index before it moves on
push_slot(s) == s.effective_address

\* a JMS whose stack index is not wrapped modulo 4 (it keeps writing slot 3)
push_address_nowrap(s) ==
  [s EXCEPT !.stack[push_slot(s)] = s.pc,
            !.effective_address = IF s.effective_address = 3 THEN 3
                                  ELSE s.effective_address + 1,
            !.push_count = s.push_count + 1]

\* JMS, stack part: the return address goes to the slot, the index wraps at 4
push_address(s) ==
  [s EXCEPT !.stack[push_slot(s)] = s.pc,
            !.effective_address = (s.effective_address + 1) % 4,
            !.push_count = s.push_count + 1]

\* a BBL that pops whether or not a push is pending
pop_address_always(s) ==
  LET ea == (s.effective_address + 3) % 4
  IN  [s EXCEPT !.push_count = IF @ > 0 THEN @ - 1 ELSE 0,
                !.effective_address = ea,
                !.pc = s.stack[ea]]

\* BBL, stack part: pops only while a push is pending
pop_address(s) ==
  IF s.push_count > 0
    THEN LET ea == (s.effective_address + 3) % 4
         IN  [s EXCEPT !.push_count = s.push_count - 1,
                       !.effective_address = ea,
                       !.pc = s.stack[ea]]
    ELSE s

\* CLC, STC and a DAA that assigns the carry where the engines only set it
acc_group_daa_assigns(s, modifier) ==
  CASE modifier = 1 -> [s EXCEPT !.carry = FALSE]
    [] modifier = 10 -> [s EXCEPT !.carry = TRUE]
    [] modifier = 11 -> IF s.acc > 9 \/ s.carry
                          THEN [s EXCEPT !.acc = (s.acc + 6) % 16,
                                         !.carry = s.acc + 6 > 15]
                          ELSE s
    [] OTHER -> s

\* 0xF0..0xFD of both engines, but for DCL: accumulator and carry group
acc_group(s, modifier) ==
  CASE modifier = 0 -> [s EXCEPT !.acc = 0, !.carry = FALSE]
    [] modifier = 1 -> [s EXCEPT !.carry = FALSE]
    [] modifier = 2 -> set_acc_carry(s, s.acc + 1)
    [] modifier = 3 -> [s EXCEPT !.carry = ~s.carry]
    [] modifier = 4 -> [s EXCEPT !.acc = 15 - s.acc]
    [] modifier = 5 -> [s EXCEPT !.acc = ((s.acc * 2) % 16) + (IF s.carry THEN 1 ELSE 0),
                                 !.carry = s.acc \div 8 = 1]
    [] modifier = 6 -> [s EXCEPT !.acc = (s.acc \div 2) + (IF s.carry THEN 8 ELSE 0),
                                 !.carry = s.acc % 2 = 1]
    [] modifier = 7 -> [s EXCEPT !.acc = IF s.carry THEN 1 ELSE 0, !.carry = FALSE]
    [] modifier = 8 -> IF s.acc = 0 THEN [s EXCEPT !.acc = 15, !.carry = FALSE]
                       ELSE [s EXCEPT !.acc = s.acc - 1, !.carry = TRUE]
    [] modifier = 9 -> [s EXCEPT !.acc = IF s.carry THEN 10 ELSE 9, !.carry = FALSE]
    [] modifier = 10 -> [s EXCEPT !.carry = TRUE]
    [] modifier = 11 -> IF s.acc > 9 \/ s.carry
                          THEN [s EXCEPT !.acc = (s.acc + 6) % 16,
                                         !.carry = s.carry \/ s.acc + 6 > 15]
                          ELSE s
    [] modifier = 12 -> [s EXCEPT !.acc = CASE s.acc = 0 -> 0 [] s.acc = 1 -> 1
                                            [] s.acc = 2 -> 2 [] s.acc = 4 -> 3
                                            [] s.acc = 8 -> 4 [] OTHER -> 15]
    [] OTHER -> s

\* I4004::run_cycle, 0xE0..0xEF: the IO trait call made, as <<method, arguments>>
I4004_io(s, opcode) ==
  CASE opcode = 224 -> <<"write_ram_character", s.command_control, s.designated_index, s.acc>>
    [] opcode = 225 -> <<"write_ram_ports", s.command_control, s.designated_index, s.acc>>
    [] opcode = 226 -> <<"write_rom_ports", s.designated_index, s.acc>>
    [] opcode \in 228..231 ->
         <<"write_ram_status", s.command_control, s.designated_index, opcode % 4, s.acc>>
    [] opcode \in {232, 233, 235} ->
         <<"read_ram_character", s.command_control, s.designated_index>>
    [] opcode = 234 -> <<"read_rom_ports", s.designated_index>>
    [] opcode \in 236..239 ->
         <<"read_ram_status", s.command_control, s.designated_index, opcode % 4>>
    [] OTHER -> <<"none">>

\* I4004::run_cycle: opcode is the byte at pc, byte2 the byte the instruction
\* reads next (its second byte, or the byte FIN fetches), data_in what an IO
\* read answers
I4004_run_cycle(s0, opcode, byte2, data_in) ==
  LET s  == next_rom_byte(s0)
      s2 == next_rom_byte(s)
      hi == opcode \div 16
      lo == opcode % 16
      pair == get_reg_pair(opcode)
      loadpair(t) == [t EXCEPT !.regs = [t.regs EXCEPT ![pair.low] = byte2 % 16,
                                                       ![pair.high] = byte2 \div 16]]
  IN  CASE opcode = 0 -> s
        [] hi = 1 -> IF jcn_taken(s2, lo) THEN jump_near(s2, byte2) ELSE s2
        [] hi = 2 /\ lo % 2 = 0 -> loadpair(s2)
        [] hi = 2 /\ lo % 2 = 1 ->
             [s EXCEPT !.designated_index =
                         s.regs[pair.low] + 16 * (s.regs[pair.high] % 4)
                                          + 64 * (s.regs[pair.high] \div 4)]
        [] hi = 3 /\ lo % 2 = 0 -> loadpair(s)
        [] hi = 3 /\ lo % 2 = 1 ->
             jump_near(s, BitOr(s.regs[pair.low], (s.regs[pair.high] * 16) % 256))
        [] hi = 4 -> jump(s2, byte2, lo)
        [] hi = 5 -> jump(push_address(s2), byte2, lo)
        [] hi = 6 -> [s EXCEPT !.regs[lo] = (s.regs[lo] + 1) % 16]
        [] hi = 7 -> IF s2.regs[lo] = 15
                       THEN [s2 EXCEPT !.regs[lo] = 0]
                       ELSE jump_near([s2 EXCEPT !.regs[lo] = s2.regs[lo] + 1], byte2)
        [] hi = 8 -> set_acc_carry(s, s.acc + s.regs[lo] + (IF s.carry THEN 1 ELSE 0))
        [] hi = 9 -> set_acc_carry(s, s.acc + (15 - s.regs[lo]) + (IF s.carry THEN 0 ELSE 1))
        [] hi = 10 -> [s EXCEPT !.acc = s.regs[lo]]
        [] hi = 11 -> [s EXCEPT !.regs[lo] = s.acc, !.acc = s.regs[lo]]
        [] hi = 12 -> pop_address([s EXCEPT !.acc = lo])
        [] hi = 13 -> [s EXCEPT !.acc = lo]
        [] opcode \in {224, 225, 226} \/ opcode \in 228..231 -> s
        [] opcode = 232 -> set_acc_carry(s, s.acc + (15 - data_in) + (IF s.carry THEN 0 ELSE 1))
        [] opcode \in {233, 234} \/ opcode \in 236..239 -> [s EXCEPT !.acc = data_in]
        [] opcode = 235 -> set_acc_carry(s, s.acc + data_in + (IF s.carry THEN 1 ELSE 0))
        [] opcode \in 240..252 -> acc_group(s, lo)
        [] opcode = 253 -> [s EXCEPT !.command_control = s.acc]
        [] opcode = 254 -> s
        [] OTHER -> [s EXCEPT !.aborted = TRUE]

(***************************************************************************)
(* Split-phase Intel 4004, src/src/mcs4/cpu4004.rs                         *)
(***************************************************************************)

ContinuationPhases ==
  {"JumpConditional", "CallFar", "JumpFar", "SetReg", "SetIndirectReg"}

\* ControlLines: ram[0..3] are bits 0..3, rom is bit 4; DEFAULT is 0
ControlLinesRomRam0 == 17

\* CPU::new: Default but for the control lines (rom and ram 0 on)
CPU_new ==
  [continue_from |-> "StartOver", previous_modifier |-> 0,
   control_output |-> ControlLinesRomRam0,
   pc |-> 0, stack |-> ZeroStack, effective_address |-> 0, push_count |-> 0,
   opcode |-> 0, carry |-> FALSE, test |-> FALSE, acc |-> 0,
   regs |-> ZeroRegs, aborted |-> FALSE]

\* Address::with_high(h).with_low(l): the chip index is kept
with_high_low(pc, h, l) == (pc \div 256) * 256 + h * 16 + l

\* get_addr: the address the board fetches from
get_addr(s) ==
  IF s.continue_from = "SetIndirectReg"
    THEN with_high_low(s.pc, s.regs[0], s.regs[1])
    ELSE s.pc

\* set_opcode, the chip: the opcode is latched
set_opcode(s, opcode) == [s EXCEPT !.opcode = opcode]

\* set_opcode, what it returns: the control lines, for an IO opcode only
set_opcode_lines(s, opcode) ==
  IF s.continue_from = "StartOver" /\ opcode \div 16 = 14
    THEN s.control_output
    ELSE 0

\* what `push_count += 1` on a u8 can do: at 255 a debug build panics and a
\* release build wraps to 0
PushCountOutcomes(s) ==
  IF s.push_count < 255 THEN {"counted"} ELSE {"panic", "wrap"}

\* a JumpConditional phase that forgets to hand the engine back to StartOver
ContinueJumpConditional_pending(s) ==
  IF jcn_taken(s, s.previous_modifier)
    THEN [s EXCEPT !.pc = with_high_low(s.pc, s.opcode \div 16, s.opcode % 16)]
    ELSE s

\* run_cycle, ContinueFrom::JumpConditional (JCN and ISZ)
ContinueJumpConditional(s) ==
  [(IF jcn_taken(s, s.previous_modifier)
      THEN [s EXCEPT !.pc = with_high_low(s.pc, s.opcode \div 16, s.opcode % 16)]
      ELSE s)
   EXCEPT !.continue_from = "StartOver"]

\* run_cycle, ContinueFrom::CallFar
ContinueCallFar(s, outcome) ==
  LET pushed == [s EXCEPT !.stack[push_slot(s)] = s.pc,
                          !.effective_address = (s.effective_address + 1) % 4]
  IN  IF outcome = "panic"
        THEN [pushed EXCEPT !.aborted = TRUE]
        ELSE [pushed EXCEPT !.push_count = (s.push_count + 1) % 256,
                            !.pc = s.previous_modifier * 256 + s.opcode,
                            !.continue_from = "StartOver"]

\* run_cycle, ContinueFrom::JumpFar
ContinueJumpFar(s) ==
  [s EXCEPT !.pc = s.previous_modifier * 256 + s.opcode,
            !.continue_from = "StartOver"]

\* run_cycle, ContinueFrom::SetReg | SetIndirectReg
ContinueSetReg(s) ==
  LET index == s.previous_modifier
      r1 == [s.regs EXCEPT ![index] = s.opcode \div 16]
      r2 == [r1 EXCEPT ![BitOr(index, 1)] = s.opcode % 16]
  IN  [s EXCEPT !.regs = r2, !.continue_from = "StartOver"]

\* run_cycle, ContinueFrom::StartOver: the phase the decoded opcode leaves pending
StartOverPhase(s) ==
  CASE s.opcode \div 16 = 1 -> "JumpConditional"
    [] s.opcode \div 16 = 2 /\ s.opcode % 2 = 0 -> "SetReg"
    [] s.opcode \div 16 = 3 /\ s.opcode % 2 = 0 -> "SetIndirectReg"
    [] s.opcode \div 16 = 4 -> "JumpFar"
    [] s.opcode \div 16 = 5 -> "CallFar"
    [] s.opcode \div 16 = 7 -> "JumpConditional"
    [] OTHER -> "StartOver"

\* a side channel that packs the SRC byte with its two nibbles exchanged
StartOverOut_swapped(s) ==
  LET hi == s.opcode \div 16
      modifier == s.opcode % 16
  IN  CASE hi = 2 /\ modifier % 2 = 1 ->
             <<"SRC", s.regs[modifier] * 16 + s.regs[BitAnd(modifier, 14)]>>
        [] hi = 14 /\ modifier < 8 -> <<"Write", modifier * 16 + s.acc>>
        [] OTHER -> <<"Nothing">>

\* run_cycle, ContinueFrom::StartOver: the ExecuteOut it returns
StartOverOut(s) ==
  LET hi == s.opcode \div 16
      modifier == s.opcode % 16
  IN  CASE hi = 2 /\ modifier % 2 = 1 ->
             <<"SRC", s.regs[BitAnd(modifier, 14)] * 16 + s.regs[modifier]>>
        [] hi = 14 /\ modifier < 8 -> <<"Write", modifier * 16 + s.acc>>
        [] OTHER -> <<"Nothing">>

\* DCL: the control lines for the RAM bank the accumulator names
dcl_lines(acc) ==
  IF acc = 0 THEN ControlLinesRomRam0
  ELSE 16 + 2 * (acc % 2) + 4 * ((acc \div 2) % 2) + 8 * ((acc \div 4) % 2)

\* run_cycle, ContinueFrom::StartOver: s has the program counter already moved
StartOver(s, data_in) ==
  LET hi == s.opcode \div 16
      modifier == s.opcode % 16
      t == [s EXCEPT !.previous_modifier = modifier,
                     !.continue_from = StartOverPhase(s)]
  IN  CASE hi = 3 /\ modifier % 2 = 1 ->
             [t EXCEPT !.pc = with_high_low(s.pc, s.regs[BitAnd(modifier, 14)],
                                            s.regs[modifier])]
        [] hi = 6 -> [t EXCEPT !.regs[modifier] = (s.regs[modifier] + 1) % 16]
        [] hi = 7 -> IF s.regs[modifier] = 15
                       THEN [t EXCEPT !.regs[modifier] = 0, !.previous_modifier = 0]
                       ELSE [t EXCEPT !.regs[modifier] = s.regs[modifier] + 1,
                                      !.previous_modifier = 8]
        [] hi = 8 -> set_acc_carry(t, s.acc + s.regs[modifier] + (IF s.carry THEN 1 ELSE 0))
        [] hi = 9 -> set_acc_carry(t, s.acc + (15 - s.regs[modifier])
                                            + (IF s.carry THEN 0 ELSE 1))
        [] hi = 10 -> [t EXCEPT !.acc = s.regs[modifier]]
        [] hi = 11 -> [t EXCEPT !.regs[modifier] = s.acc, !.acc = s.regs[modifier]]
        [] hi = 12 -> pop_address([t EXCEPT !.acc = modifier])
        [] hi = 13 -> [t EXCEPT !.acc = modifier]
        [] hi = 14 /\ modifier = 8 ->
             set_acc_carry(t, s.acc + (15 - data_in) + (IF s.carry THEN 0 ELSE 1))
        [] hi = 14 /\ modifier \in {9, 10, 12, 13, 14, 15} -> [t EXCEPT !.acc = data_in]
        [] hi = 14 /\ modifier = 11 ->
             set_acc_carry(t, s.acc + data_in + (IF s.carry THEN 1 ELSE 0))
        [] hi = 15 /\ modifier <= 12 -> acc_group(t, modifier)
        [] hi = 15 /\ modifier = 13 -> [t EXCEPT !.control_output = dcl_lines(s.acc)]
        [] hi = 15 /\ modifier = 15 -> [t EXCEPT !.aborted = TRUE]
        [] OTHER -> t

\* CPU::run_cycle, the chip
CPU_run_cycle(s0, data_in, outcome) ==
  LET s == IF s0.opcode \div 16 = 3 /\ s0.continue_from = "StartOver"
             THEN s0
             ELSE [s0 EXCEPT !.pc = (s0.pc + 1) % 4096]
  IN  CASE s.continue_from = "StartOver" -> StartOver(s, data_in)
        [] s.continue_from = "JumpConditional" -> ContinueJumpConditional(s)
        [] s.continue_from = "CallFar" -> ContinueCallFar(s, outcome)
        [] s.continue_from = "JumpFar" -> ContinueJumpFar(s)
        [] OTHER -> ContinueSetReg(s)

\* CPU::run_cycle, the ExecuteOut it returns
CPU_run_cycle_out(s0) ==
  IF s0.continue_from = "StartOver" THEN StartOverOut(s0) ELSE <<"Nothing">>

(***************************************************************************)
(* Shift registers, src/src/shifter.rs                                     *)
(***************************************************************************)

\* A digit register (Shifter64<44>, 11 digits; the 56-bit register of the
\* HP chip, 14 digits) is kept as the sequence of its nibbles, the rightmost
\* (least significant) first: 44 and 56 bits do not fit a model integer.
\* A bit register (Shifter16<11>, Shifter16<10>) is kept as its number.

\* a read_nibble that takes the rightmost nibble whatever the direction
read_nibble_rightmost(data, direction) == data[1]

\* read_nibble: the leftmost nibble going left, the rightmost going right
read_nibble(data, direction) ==
  IF direction = "Left" THEN data[Len(data)] ELSE data[1]

\* shift_with_nibble: going left the nibble enters on the right and the
\* leftmost one is lost, going right it enters on the left
shift_with_nibble(data, direction, nibble) ==
  IF direction = "Left"
    THEN <<nibble>> \o SubSeq(data, 1, Len(data) - 1)
    ELSE Tail(data) \o <<nibble>>

\* read_bit: the leftmost bit going left, the rightmost going right
read_bit(data, direction, NUM_BITS) ==
  IF direction = "Left"
    THEN (data \div 2^(NUM_BITS - 1)) % 2 = 1
    ELSE data % 2 = 1

\* shift_with_bit: a bit written going right is or-ed in as 1 << NUM_BITS
shift_with_bit(data, direction, bit, NUM_BITS) ==
  LET shifted == IF direction = "Left" THEN (data * 2) % 2^NUM_BITS
                 ELSE data \div 2
  IN  IF bit
        THEN BitOr(shifted, IF direction = "Left" THEN 1 ELSE 2^NUM_BITS)
        ELSE shifted

\* read_and_shift_bit: the bit at the end the direction reads, and the register
\* shifted by one with the given bit written
read_and_shift_bit(data, direction, bit, NUM_BITS) ==
  <<read_bit(data, direction, NUM_BITS),
    shift_with_bit(data, direction, bit, NUM_BITS)>>

\* what u4::new does with a value that needs more than four bits: it panics
u4_fits(value) == value \in 0..15

(***************************************************************************)
(* HP Arithmetic and Register chip, src/src/cpu/hp_anr.rs                  *)
(***************************************************************************)

\* digits of an HP register
HP_Digits == 14

\* a test of the 13th bit where WordSelect::shift tests the 14th
WordSelect_shift_bit13(data, direction) ==
  IF direction = "Left"
    THEN <<(data \div 2^(HP_Digits - 2)) % 2 = 1, (data * 2) % 2^HP_Digits>>
    ELSE <<data % 2 = 1, data \div 2>>

\* WordSelect::shift: the bit that leaves, and the data shifted
WordSelect_shift(data, direction) ==
  IF direction = "Left"
    THEN <<(data \div 2^(HP_Digits - 1)) % 2 = 1, (data * 2) % 2^HP_Digits>>
    ELSE <<data % 2 = 1, data \div 2>>

\* an add that drops the carry coming in
HP_add_carry_dropped(num1, num2, carry) ==
  LET result == num1 + num2
  IN  IF result >= 10
        THEN [value |-> result - 10, carry |-> TRUE, ok |-> u4_fits(result - 10)]
        ELSE [value |-> result, carry |-> FALSE, ok |-> u4_fits(result)]

\* add (BCD): the digit, the carry, and whether u4::new took the digit
HP_add(num1, num2, carry) ==
  LET result == num1 + num2 + (IF carry THEN 1 ELSE 0)
  IN  IF result >= 10
        THEN [value |-> result - 10, carry |-> TRUE, ok |-> u4_fits(result - 10)]
        ELSE [value |-> result, carry |-> FALSE, ok |-> u4_fits(result)]

\* sub (BCD): (result + 10) as u8 of a negative number is 246..255
HP_sub(num1, num2, borrow) ==
  LET result == num1 - num2 - (IF borrow THEN 1 ELSE 0)
  IN  IF result < 0
        THEN [value |-> (result + 10) % 256, carry |-> TRUE,
              ok |-> u4_fits((result + 10) % 256)]
        ELSE [value |-> result, carry |-> FALSE, ok |-> u4_fits(result)]

\* the digits of one pass: what `(dest, carry) = add(..)` and `(_, carry) =
\* sub(..)` do to them; a panic in u4::new leaves them as they were
SetResult(s, dest, r) ==
  IF ~r.ok THEN [s EXCEPT !.ok = FALSE]
  ELSE IF dest = "none" THEN [s EXCEPT !.carry = r.carry]
  ELSE [s EXCEPT ![dest] = r.value, !.carry = r.carry]

\* a shift step that does not keep the digit it replaces
SwapPrev_forgetting(s, dest) ==
  IF dest = "none" THEN s ELSE [s EXCEPT ![dest] = s.prev_nibble]

\* `(dest, prev_nibble) = (prev_nibble, dest)`
SwapPrev(s, dest) ==
  IF dest = "none" THEN s
  ELSE [s EXCEPT ![dest] = s.prev_nibble, !.prev_nibble = s[dest]]

\* type_2, the match on operation_code at one selected digit
type_2_digit(operation_code, s, one) ==
  CASE operation_code = 0 -> SetResult(s, "none", HP_sub(0, s.b, s.carry))
    [] operation_code = 1 -> [s EXCEPT !.b = 0]
    [] operation_code = 2 -> SetResult(s, "none", HP_sub(s.a, s.c, s.carry))
    [] operation_code = 3 -> SetResult(s, "none", HP_sub(s.c, one, s.carry))
    [] operation_code = 4 -> [s EXCEPT !.c = s.b]
    [] operation_code = 5 -> SetResult(s, "c", HP_sub(0, s.c, s.carry))
    [] operation_code = 6 -> [s EXCEPT !.c = 0]
    [] operation_code = 7 ->
         LET r1 == HP_sub(0, s.c, s.carry)
             r2 == HP_sub(r1.value, one, FALSE)
         IN  IF ~r1.ok THEN [s EXCEPT !.ok = FALSE]
             ELSE SetResult(s, "c", [r2 EXCEPT !.carry = r1.carry \/ r2.carry])
    [] operation_code = 8 -> SwapPrev(s, "a")
    [] operation_code = 9 -> [s EXCEPT !.b = s.a]
    [] operation_code = 10 -> SetResult(s, "c", HP_sub(s.a, s.c, s.carry))
    [] operation_code = 11 -> SetResult(s, "c", HP_sub(s.c, one, s.carry))
    [] operation_code = 12 -> [s EXCEPT !.a = s.c]
    [] operation_code = 13 -> SetResult(s, "none", HP_sub(0, s.c, s.carry))
    [] operation_code = 14 -> SetResult(s, "c", HP_add(s.a, s.c, s.carry))
    [] operation_code = 15 -> SetResult(s, "c", HP_add(s.c, one, s.carry))
    [] operation_code = 16 -> SetResult(s, "none", HP_sub(s.a, s.b, s.carry))
    [] operation_code = 17 -> [s EXCEPT !.b = s.c, !.c = s.b]
    [] operation_code = 18 -> SwapPrev(s, "c")
    [] operation_code = 19 -> SetResult(s, "none", HP_sub(s.a, one, s.carry))
    [] operation_code = 20 -> SwapPrev(s, "b")
    [] operation_code = 21 -> SetResult(s, "c", HP_add(s.c, s.c, s.carry))
    [] operation_code = 22 -> SwapPrev(s, "a")
    [] operation_code = 23 -> [s EXCEPT !.a = 0]
    [] operation_code = 24 -> SetResult(s, "a", HP_sub(s.a, s.b, s.carry))
    [] operation_code = 25 -> [s EXCEPT !.b = s.a, !.a = s.b]
    [] operation_code = 26 -> SetResult(s, "a", HP_sub(s.a, s.c, s.carry))
    [] operation_code = 27 -> SetResult(s, "a", HP_sub(s.a, one, s.carry))
    [] operation_code = 28 -> SetResult(s, "a", HP_add(s.a, s.b, s.carry))
    [] operation_code = 29 -> [s EXCEPT !.c = s.a, !.a = s.c]
    [] operation_code = 30 -> SetResult(s, "a", HP_add(s.a, s.c, s.carry))
    [] OTHER -> SetResult(s, "a", HP_add(s.a, one, s.carry))

\* type_2, one turn of the loop: s holds the registers, the word select, the
\* carry, first_digit and prev_nibble
type_2_pass(s, operation_code, direction) ==
  LET ws == WordSelect_shift(s.word_select, direction)
      d0 == [a |-> read_nibble(s.a, direction), b |-> read_nibble(s.b, direction),
             c |-> read_nibble(s.c, direction), carry |-> s.carry,
             prev_nibble |-> s.prev_nibble, ok |-> TRUE]
      d == IF ws[1]
             THEN type_2_digit(operation_code, d0, IF s.first_digit THEN 1 ELSE 0)
             ELSE d0
  IN  IF ~d.ok
        THEN [s EXCEPT !.word_select = ws[2], !.aborted = TRUE]
        ELSE [s EXCEPT !.a = shift_with_nibble(s.a, direction, d.a),
                       !.b = shift_with_nibble(s.b, direction, d.b),
                       !.c = shift_with_nibble(s.c, direction, d.c),
                       !.word_select = ws[2],
                       !.carry = d.carry,
                       !.prev_nibble = d.prev_nibble,
                       !.first_digit = s.first_digit /\ ~ws[1]]

RECURSIVE type_2_loop(_, _, _, _)
\* type_2, the turns of the loop that are left; a panic ends them
type_2_loop(s, operation_code, direction, turns) ==
  IF turns = 0 \/ s.aborted THEN s
  ELSE type_2_loop(type_2_pass(s, operation_code, direction),
                   operation_code, direction, turns - 1)

\* type_2: chip holds a, b, c and next_carry (run_cycle has set it)
type_2(chip, operation_code, word_select) ==
  LET direction == IF operation_code \in {18, 20, 22} THEN "Left" ELSE "Right"
      s == type_2_loop([a |-> chip.a, b |-> chip.b, c |-> chip.c,
                        word_select |-> word_select, carry |-> FALSE,
                        first_digit |-> TRUE, prev_nibble |-> 0,
                        aborted |-> FALSE],
                       operation_code, direction, HP_Digits)
  IN  [a |-> s.a, b |-> s.b, c |-> s.c,
       next_carry |-> IF s.aborted THEN chip.next_carry ELSE ~s.carry,
       aborted |-> s.aborted]

\* HP_AnR::run_cycle on a type 2 opcode (its two low bits are 10)
HP_run_cycle(chip, opcode, word_select_data) ==
  LET c0 == [chip EXCEPT !.next_carry = TRUE]
  IN  IF opcode % 4 = 2 THEN type_2(c0, opcode \div 32, word_select_data)
      ELSE c0

(***************************************************************************)
(* TMS0800 arithmetic unit, src/src/tms0800/alu.rs                         *)
(***************************************************************************)

\* digits of a TMS0800 register, bits of its word select
TMS_Digits == 11

\* what decode_instructions can make of a column of the control planes
Instructions ==
  [operation : {"Add", "Shr", "Shl", "Subtract", "ExchangeAB", "WaitForKey"},
   arg1 : {"None", "C", "A"}, arg2 : {"None", "B", "K"},
   dest : {"None", "A", "C", "B"}, hex : BOOLEAN]

\* add (BCD or hex)
add(num1, num2, carry, hex) ==
  LET result == num1 + num2 + (IF carry THEN 1 ELSE 0)
      ten == IF hex THEN 16 ELSE 10
  IN  IF result >= ten
        THEN [value |-> result - ten, carry |-> TRUE, ok |-> u4_fits(result - ten)]
        ELSE [value |-> result, carry |-> FALSE, ok |-> u4_fits(result)]

\* sub (BCD or hex)
sub(num1, num2, borrow, hex) ==
  LET result == num1 - num2 - (IF borrow THEN 1 ELSE 0)
      ten == IF hex THEN 16 ELSE 10
  IN  IF result < 0
        THEN [value |-> (result + ten) % 256, carry |-> TRUE,
              ok |-> u4_fits((result + ten) % 256)]
        ELSE [value |-> result, carry |-> FALSE, ok |-> u4_fits(result)]

\* the nibble an Arg names at one digit
ArgValue(arg, s, k) ==
  CASE arg = "A" -> s.a
    [] arg = "B" -> s.b
    [] arg = "C" -> s.c
    [] arg = "K" -> k
    [] OTHER -> 0

\* the digit an Arg names as destination
ArgDest(arg) ==
  CASE arg = "A" -> "a"
    [] arg = "B" -> "b"
    [] arg = "C" -> "c"
    [] OTHER -> "none"

\* ALU::run_cycle, the match on instruction.operation at one selected digit
ALU_digit(instruction, s, k) ==
  CASE instruction.operation \in {"Add", "WaitForKey"} ->
         SetResult(s, ArgDest(instruction.dest),
                   add(ArgValue(instruction.arg1, s, k), ArgValue(instruction.arg2, s, k),
                       s.carry, instruction.hex))
    [] instruction.operation = "Subtract" ->
         SetResult(s, ArgDest(instruction.dest),
                   sub(ArgValue(instruction.arg1, s, k), ArgValue(instruction.arg2, s, k),
                       s.carry, instruction.hex))
    [] instruction.operation = "ExchangeAB" -> [s EXCEPT !.a = s.b, !.b = s.a]
    [] OTHER -> SwapPrev(s, ArgDest(instruction.dest))

\* a constant that is supplied at every selected digit
ConstantAt_every(first_time, k0) == k0

\* ALU::run_cycle, `let k = if first_time { constants[mask] } else { 0 }`
ConstantAt(first_time, k0) == IF first_time THEN k0 ELSE 0

\* ALU::run_cycle, one turn of the loop; k0 is constants[mask]; ks lists the
\* k of every selected digit so far
ALU_pass(s, instruction, direction, k0) ==
  LET ws == read_and_shift_bit(s.word_select, direction, FALSE, TMS_Digits)
      k == ConstantAt(s.first_time, k0)
      ks == IF ws[1] THEN Append(s.ks, k) ELSE s.ks
      d0 == [a |-> read_nibble(s.a, direction), b |-> read_nibble(s.b, direction),
             c |-> read_nibble(s.c, direction), carry |-> s.carry,
             prev_nibble |-> s.prev_nibble, ok |-> TRUE]
      d == IF ws[1]
             THEN ALU_digit(instruction, d0, k)
             ELSE d0
  IN  IF ~d.ok
        THEN [s EXCEPT !.word_select = ws[2], !.ks = ks, !.aborted = TRUE]
        ELSE [s EXCEPT !.a = shift_with_nibble(s.a, direction, d.a),
                       !.b = shift_with_nibble(s.b, direction, d.b),
                       !.c = shift_with_nibble(s.c, direction, d.c),
                       !.word_select = ws[2],
                       !.carry = d.carry,
                       !.prev_nibble = d.prev_nibble,
                       !.ks = ks,
                       !.first_time = s.first_time /\ ~ws[1]]

RECURSIVE ALU_loop(_, _, _, _, _)
\* ALU::run_cycle, the turns of the loop that are left; a panic ends them
ALU_loop(s, instruction, direction, k0, turns) ==
  IF turns = 0 \/ s.aborted THEN s
  ELSE ALU_loop(ALU_pass(s, instruction, direction, k0),
                instruction, direction, k0, turns - 1)

\* ALU::run_cycle: code is the instruction's number, instruction its entry
\* instructions[code], k0 the entry constants[mask]; carry is what it returns
ALU_run_cycle(chip, word_select, code, instruction, k0) ==
  LET direction == IF code \in 23..25 THEN "Left" ELSE "Right"
      s == ALU_loop([a |-> chip.a, b |-> chip.b, c |-> chip.c,
                     word_select |-> word_select, carry |-> FALSE,
                     first_time |-> TRUE, prev_nibble |-> 0, ks |-> <<>>,
                     aborted |-> FALSE],
                    instruction, direction, k0, TMS_Digits)
  IN  [a |-> s.a, b |-> s.b, c |-> s.c, carry |-> s.carry, ks |-> s.ks,
       aborted |-> s.aborted]

(***************************************************************************)
(* TMS0800 control unit and chip, src/src/tms0800/control.rs and mod.rs     *)
(***************************************************************************)

\* words in the ROM of a TMS0800
RomWords == 320

\* ControlUnit::new and ALU::new inside TMS0800::new; build is how the crate
\* was compiled, which decides what an overflowing u9 subtraction does
TMS0800_new(build) ==
  [pc |-> 0, fa |-> 0, fb |-> 0, d |-> 512, current_keypress |-> 0,
   carry |-> FALSE,
   a |-> [i \in 1..TMS_Digits |-> 0], b |-> [i \in 1..TMS_Digits |-> 0],
   c |-> [i \in 1..TMS_Digits |-> 0],
   aborted |-> FALSE, build |-> build]

\* `self.pc += u9::new(1)`: past 511 a debug build panics, a release build wraps
inc_pc(s) ==
  IF s.pc < 511 THEN [s EXCEPT !.pc = s.pc + 1]
  ELSE IF s.build = "debug" THEN [s EXCEPT !.aborted = TRUE]
  ELSE [s EXCEPT !.pc = 0]

\* `self.pc -= u9::new(1)`: below 0 a debug build panics, a release build wraps
dec_pc(s) ==
  IF s.pc > 0 THEN [s EXCEPT !.pc = s.pc - 1]
  ELSE IF s.build = "debug" THEN [s EXCEPT !.aborted = TRUE]
  ELSE [s EXCEPT !.pc = 511]

\* ControlUnit::run_cycle, class 2, the match on instruction at a selected
\* digit: s holds the chip with the carry and the bits fa and fb of this turn
Class2Selected(s, instruction, addr, d, i) ==
  CASE instruction \in 0..15 ->
         IF s.d = s.current_keypress THEN [s EXCEPT !.pc = addr] ELSE s
    [] instruction \in {17, 18} ->
         IF s.current_keypress = 0 THEN dec_pc(s) ELSE [s EXCEPT !.pc = addr]
    [] instruction = 19 -> [s EXCEPT !.fb_bit = TRUE]
    [] instruction = 20 -> [s EXCEPT !.fa_bit = TRUE]
    [] instruction = 21 -> IF ~d /\ i = 0 THEN dec_pc(s) ELSE s
    [] instruction = 22 ->
         LET t == IF ~d /\ i = 0 THEN dec_pc(s) ELSE s
         IN  IF t.aborted THEN t ELSE [t EXCEPT !.carry = (s.current_keypress # 0)]
    [] instruction = 23 -> [s EXCEPT !.fb_bit = FALSE]
    [] instruction = 24 -> [s EXCEPT !.fa_bit = FALSE]
    [] instruction = 25 -> IF s.fb_bit THEN [s EXCEPT !.carry = TRUE] ELSE s
    [] instruction = 26 -> IF s.fa_bit THEN [s EXCEPT !.carry = TRUE] ELSE s
    [] instruction = 27 -> [s EXCEPT !.fb_bit = ~s.fb_bit]
    [] instruction = 28 -> [s EXCEPT !.fa_bit = ~s.fa_bit]
    [] instruction = 29 -> IF s.fb_bit # s.fa_bit THEN [s EXCEPT !.carry = TRUE] ELSE s
    [] instruction = 31 -> [s EXCEPT !.fb_bit = s.fa_bit, !.fa_bit = s.fb_bit]
    [] OTHER -> s

\* ControlUnit::run_cycle, class 2, turn i of the loop
Class2Pass(s, instruction, addr, d, i) ==
  LET ws == read_and_shift_bit(s.word_select, "Right", FALSE, TMS_Digits)
      s0 == [s EXCEPT !.fa_bit = read_bit(s.fa, "Right", TMS_Digits),
                      !.fb_bit = read_bit(s.fb, "Right", TMS_Digits),
                      !.word_select = ws[2]]
      s1 == IF ws[1] THEN Class2Selected(s0, instruction, addr, d, i) ELSE s0
  IN  IF s1.aborted THEN s1
      ELSE [s1 EXCEPT !.fa = shift_with_bit(s1.fa, "Right", s1.fa_bit, TMS_Digits),
                      !.fb = shift_with_bit(s1.fb, "Right", s1.fb_bit, TMS_Digits)]

RECURSIVE Class2Loop(_, _, _, _, _)
\* ControlUnit::run_cycle, class 2, the turns from i on; a panic ends them
Class2Loop(s, instruction, addr, d, i) ==
  IF i = TMS_Digits \/ s.aborted THEN s
  ELSE Class2Loop(Class2Pass(s, instruction, addr, d, i), instruction, addr, d, i + 1)

\* ControlUnit::run_cycle: s.carry is the carry handed in and handed back
ControlUnit_run_cycle(s, word_select, opcode, class, instruction) ==
  LET s1 == inc_pc(s)
      addr == opcode % 512
      d == read_bit(s.d, "Right", 10)
      s2 == CASE class = 0 ->
                   IF ~s1.carry THEN [s1 EXCEPT !.pc = addr]
                   ELSE [s1 EXCEPT !.carry = FALSE]
              [] class = 1 ->
                   IF s1.carry THEN [s1 EXCEPT !.pc = addr, !.carry = FALSE]
                   ELSE s1
              [] class = 2 ->
                   LET t == Class2Loop([word_select |-> word_select, fa_bit |-> FALSE,
                                        fb_bit |-> FALSE] @@ s1,
                                       instruction, addr, d, 0)
                   IN  [f \in DOMAIN s1 |-> t[f]]
              [] OTHER ->
                   IF instruction = 26 /\ BitOr(s1.d, 1) # s1.current_keypress
                     THEN dec_pc(s1)
                     ELSE s1
  IN  IF s1.aborted THEN s1
      ELSE IF s2.aborted THEN s2
      ELSE [s2 EXCEPT !.d = shift_with_bit(s2.d, "Right", d, 10)]

\* a run_cycle that assigns the carry the arithmetic unit returns where the
\* code only sets it
TMS0800_run_cycle_carry_assigned(s, opcode, word_selects, instructions, constants) ==
  LET class == opcode \div 512
      mask == opcode % 16
      instruction == (opcode \div 16) % 32
      word_select == word_selects[mask]
      r == ALU_run_cycle(s, word_select, instruction, instructions[instruction],
                         constants[mask])
      s1 == IF class = 3
              THEN [s EXCEPT !.a = r.a, !.b = r.b, !.c = r.c,
                             !.carry = IF r.aborted THEN s.carry ELSE r.carry,
                             !.aborted = r.aborted]
              ELSE s
  IN  IF s1.aborted THEN s1
      ELSE ControlUnit_run_cycle(s1, word_select, opcode, class, instruction)

\* TMS0800::run_cycle after the fetch: opcode is rom[pc]; the three tables
\* are those TMS0800::new was given
TMS0800_run_cycle(s, opcode, word_selects, instructions, constants) ==
  LET class == opcode \div 512
      mask == opcode % 16
      instruction == (opcode \div 16) % 32
      word_select == word_selects[mask]
      r == ALU_run_cycle(s, word_select, instruction, instructions[instruction],
                         constants[mask])
      s1 == IF class = 3
              THEN [s EXCEPT !.a = r.a, !.b = r.b, !.c = r.c,
                             !.carry = s.carry \/ (~r.aborted /\ r.carry),
                             !.aborted = r.aborted]
              ELSE s
  IN  IF s1.aborted THEN s1
      ELSE ControlUnit_run_cycle(s1, word_select, opcode, class, instruction)

(***************************************************************************)
(* One cycle of an arithmetic unit on any registers                        *)
(***************************************************************************)

NoCycle == [chip |-> "none"]

IdleAlu == alu = NoCycle

\* register contents offered for A, B and C: of zeros (z), decimal digits in
\* turn (d), digits that include 10..15 (h) and all digits 15 (f)
RegisterSamples(digits) ==
  LET z == [i \in 1..digits |-> 0]
      d == [i \in 1..digits |-> (i - 1) % 10]
      h == [i \in 1..digits |-> (i * 7) % 16]
      f == [i \in 1..digits |-> 15]
  IN  { [a |-> d, b |-> h, c |-> f], [a |-> h, b |-> d, c |-> z],
        [a |-> f, b |-> f, c |-> d], [a |-> z, b |-> d, c |-> h],
        [a |-> d, b |-> z, c |-> d] }

\* word selects offered: none, all, the lowest digit, the highest digit,
\* digits 3 to 5, and all but digits 3 to 5
WordSelectSamples(digits) ==
  {0, 2^digits - 1, 1, 2^(digits - 1), 28, 2^digits - 1 - 28}

\* entries of the constants table offered
ConstantSamples == {0, 1}

\* instruction numbers offered: one that runs right, one that runs left
CodeSamples == {0, 23}

\* HP_AnR::run_cycle with a type 2 opcode
HP_RunCycle ==
  /\ alu = NoCycle
  /\ \E r \in RegisterSamples(HP_Digits), next_carry \in BOOLEAN,
        operation_code \in 0..31, word_select \in WordSelectSamples(HP_Digits) :
       LET chip == [a |-> r.a, b |-> r.b, c |-> r.c, next_carry |-> next_carry,
                    aborted |-> FALSE]
       IN  alu' = [chip |-> "HP", code |-> operation_code, mask |-> word_select,
                   before |-> chip,
                   after |-> HP_run_cycle(chip, operation_code * 32 + 2, word_select)]
  /\ UNCHANGED <<arith, engine, i4004, cpu, bus, trail, tms, tmsenv, peripherals>>

\* ALU::run_cycle of the TMS0800, for any entry of the instruction table
ALU_RunCycle ==
  /\ alu = NoCycle
  /\ \E chip \in RegisterSamples(TMS_Digits), code \in CodeSamples,
        instruction \in Instructions, k0 \in ConstantSamples,
        word_select \in WordSelectSamples(TMS_Digits) :
           alu' = [chip |-> "TMS", code |-> code, instruction |-> instruction,
                   k |-> k0, mask |-> word_select, before |-> chip,
                   after |-> ALU_run_cycle(chip, word_select, code, instruction, k0)]
  /\ UNCHANGED <<arith, engine, i4004, cpu, bus, trail, tms, tmsenv, peripherals>>

(***************************************************************************)
(* The TMS0800 in operation                                                *)
(***************************************************************************)

\* the word_selects table given to TMS0800::new: mask 0 selects no digit,
\* mask 1 the lowest, mask 2 all eleven, mask 3 the two lowest
WordSelectsSample ==
  [m \in 0..15 |-> CASE m = 1 -> 1 [] m = 2 -> 2047 [] m = 3 -> 3 [] OTHER -> 0]

\* the constants table given to TMS0800::new
ConstantsSample == [m \in 0..15 |-> IF m = 0 THEN 0 ELSE 1]

\* the instruction table decode_instructions makes of the control planes given
\* to TMS0800::new: 0x01 is A = A + K, 0x0D is ? = A - K, 0x1A waits for a key
InstructionsSample ==
  [i \in 0..31 |->
     CASE i = 1 -> [operation |-> "Add", arg1 |-> "A", arg2 |-> "K", dest |-> "A",
                    hex |-> FALSE]
       [] i = 13 -> [operation |-> "Subtract", arg1 |-> "A", arg2 |-> "K",
                     dest |-> "None", hex |-> FALSE]
       [] i = 26 -> [operation |-> "WaitForKey", arg1 |-> "None", arg2 |-> "None",
                     dest |-> "None", hex |-> FALSE]
       [] OTHER -> [operation |-> "Add", arg1 |-> "None", arg2 |-> "None",
                    dest |-> "None", hex |-> FALSE]]

\* the words a ROM may hold: jump if no carry to 3, jump if carry to 400,
\* the register instructions ? = A - K and A = A + K under mask 1, the flag
\* instructions WAITDK (17) under masks 0 to 3, SCAN (22) under masks 0 and 1,
\* set FA (20) and test FA (26) under mask 2
RomSamples ==
  {3, 512 + 400, 1536 + 13 * 16 + 1, 1536 + 1 * 16 + 1}
    \cup {1024 + 17 * 16 + m : m \in 0..3}
    \cup {1024 + 22 * 16 + m : m \in 0..1}
    \cup {1024 + 20 * 16 + 2, 1024 + 26 * 16 + 2}

\* what the keyboard sets current_keypress to
KeySamples == {0, 512}

NoTmsEnv == [rom |-> <<>>, cycles |-> 0, keyed |-> FALSE, opcode |-> 0,
             carry_in |-> FALSE]

IdleTms == tms = TMS0800_new("none") /\ tmsenv = NoTmsEnv

InitTms ==
  /\ tms \in {TMS0800_new(build) : build \in {"debug", "release"}}
  /\ tmsenv = NoTmsEnv

\* TMS0800::run_cycle: the word at pc is the ROM's, chosen when pc is first
\* reached; a pc past the ROM fails the index check
TMS_RunCycle(limit) ==
  /\ ~tms.aborted
  /\ tmsenv.cycles < limit
  /\ IF tms.pc >= RomWords
       THEN /\ tms' = [tms EXCEPT !.aborted = TRUE]
            /\ tmsenv' = [tmsenv EXCEPT !.cycles = @ + 1, !.keyed = FALSE,
                                        !.opcode = 0, !.carry_in = tms.carry]
       ELSE \E opcode \in (IF tms.pc \in DOMAIN tmsenv.rom
                             THEN {tmsenv.rom[tms.pc]} ELSE RomSamples) :
              /\ tms' = TMS0800_run_cycle(tms, opcode, WordSelectsSample,
                                          InstructionsSample, ConstantsSample)
              /\ tmsenv' = [rom |-> (tms.pc :> opcode) @@ tmsenv.rom,
                            cycles |-> tmsenv.cycles + 1, keyed |-> FALSE,
                            opcode |-> opcode, carry_in |-> tms.carry]
  /\ UNCHANGED <<arith, engine, i4004, cpu, bus, trail, alu, peripherals>>

\* the keyboard: current_keypress is a field the board writes between cycles
TMS_SetKeypress ==
  /\ ~tms.aborted
  /\ ~tmsenv.keyed
  /\ \E key \in KeySamples \ {tms.current_keypress} :
       tms' = [tms EXCEPT !.current_keypress = key]
  /\ tmsenv' = [tmsenv EXCEPT !.keyed = TRUE]
  /\ UNCHANGED <<arith, engine, i4004, cpu, bus, trail, alu, peripherals>>

\* cycles of a run
MaxTmsCycles == 3

(***************************************************************************)
(* The 4004 chips in operation                                             *)
(***************************************************************************)

\* the constructed chip, whichever engine it is
Chip == IF engine = "I4004" THEN i4004 ELSE cpu

NoBus == [call |-> "none", control_lines |-> 0, command |-> <<"Nothing">>,
          io |-> <<"none">>, fetched |-> 0, operand |-> 0]

\* History: instrs counts the instructions begun; while the instructions executed
\* since reset are JMS, ..., JMS (at most five) followed by BBL, ..., BBL (at
\* most four, after the fifth JMS), ok holds, jms lists the addresses that
\* follow the two bytes of each JMS, owner names for each stack slot the JMS that wrote it last
\* and bbl counts the BBL.
NoTrail == [ok |-> TRUE, jms |-> <<>>, bbl |-> 0, owner |-> ZeroStack]

OffTrail == [ok |-> FALSE, jms |-> <<>>, bbl |-> 0, owner |-> ZeroStack]

TrailStep(t, begun, event, slot, ret) ==
  [instrs |-> t.instrs + (IF begun THEN 1 ELSE 0)] @@
  ( CASE event = "first" -> [ok |-> t.ok, jms |-> t.jms, bbl |-> t.bbl, owner |-> t.owner]
      [] event = "JMS" /\ t.ok /\ t.bbl = 0 /\ Len(t.jms) < 5 ->
           [ok |-> TRUE, jms |-> Append(t.jms, ret), bbl |-> 0,
            owner |-> [t.owner EXCEPT ![slot] = Len(t.jms) + 1]]
      [] event = "BBL" /\ t.ok /\ Len(t.jms) = 5 /\ t.bbl < 4 ->
           [ok |-> TRUE, jms |-> t.jms, bbl |-> t.bbl + 1, owner |-> t.owner]
      [] OTHER -> OffTrail )

Init4004 ==
  /\ engine \in {"I4004", "CPU"}
  /\ i4004 = I4004_new
  /\ cpu = CPU_new
  /\ bus = NoBus
  /\ trail = [instrs |-> 0] @@ NoTrail

\* the opcodes after which I4004::run_cycle fetches a second byte
two_bytes(opcode) ==
  \/ opcode \div 16 \in {1, 4, 5, 7}
  \/ opcode \div 16 = 2 /\ opcode % 2 = 0

\* I4004::run_cycle on any ROM: the bytes it fetches are the caller's
I4004_RunCycle(opcodes, operands, datas) ==
  /\ engine = "I4004"
  /\ ~i4004.aborted
  /\ \E opcode \in opcodes :
     \E byte2 \in (IF two_bytes(opcode) THEN operands ELSE {0}),
        data_in \in (IF opcode \div 16 = 14 THEN datas ELSE {0}) :
       LET n == I4004_run_cycle(i4004, opcode, byte2, data_in)
           event == CASE n.aborted -> "other"
                      [] opcode \div 16 = 5 -> "JMS"
                      [] opcode \div 16 = 12 -> "BBL"
                      [] OTHER -> "other"
       IN  /\ i4004' = n
           /\ bus' = [NoBus EXCEPT !.call = "run_cycle", !.io = I4004_io(i4004, opcode),
                                   !.fetched = opcode, !.operand = byte2]
           /\ trail' = TrailStep(trail, TRUE, event, push_slot(i4004),
                                 (i4004.pc + 2) % 4096)
  /\ UNCHANGED <<arith, engine, cpu, alu, tms, tmsenv, peripherals>>

\* I4004::set_test_flag and CPU::set_test_flag: the test pin
\* (it writes no field set_opcode writes: taken before it, never after)
SetTestFlag ==
  /\ ~Chip.aborted
  /\ bus.call # "set_opcode"
  /\ \E t \in BOOLEAN :
       /\ t # Chip.test
       /\ IF engine = "I4004"
            THEN i4004' = [i4004 EXCEPT !.test = t] /\ cpu' = cpu
            ELSE cpu' = [cpu EXCEPT !.test = t] /\ i4004' = i4004
  /\ bus' = [NoBus EXCEPT !.call = "set_test_flag"]
  /\ UNCHANGED <<arith, engine, trail, alu, tms, tmsenv, peripherals>>

\* CPU::set_opcode (M1, M2): the board hands over the byte it read
\* (a second set_opcode before run_cycle would only replace the first)
CPU_SetOpcode(bytes) ==
  /\ engine = "CPU"
  /\ ~cpu.aborted
  /\ bus.call # "set_opcode"
  /\ \E opcode \in bytes :
       /\ cpu' = set_opcode(cpu, opcode)
       /\ bus' = [NoBus EXCEPT !.call = "set_opcode",
                               !.control_lines = set_opcode_lines(cpu, opcode)]
  /\ UNCHANGED <<arith, engine, i4004, trail, alu, tms, tmsenv, peripherals>>

\* CPU::run_cycle (X1, X2)
CPU_RunCycle(datas) ==
  /\ engine = "CPU"
  /\ ~cpu.aborted
  /\ \E data_in \in datas,
        outcome \in (IF cpu.continue_from = "CallFar" THEN PushCountOutcomes(cpu)
                     ELSE {"counted"}) :
       LET n == CPU_run_cycle(cpu, data_in, outcome)
           event == CASE n.aborted -> "other"
                      [] cpu.continue_from = "CallFar" -> "JMS"
                      [] cpu.continue_from = "StartOver" /\ cpu.opcode \div 16 = 5 -> "first"
                      [] cpu.continue_from = "StartOver" /\ cpu.opcode \div 16 = 12 -> "BBL"
                      [] OTHER -> "other"
       IN  /\ cpu' = n
           /\ bus' = [NoBus EXCEPT !.call = "run_cycle",
                        !.command = IF n.aborted THEN <<"Abort">> ELSE CPU_run_cycle_out(cpu)]
           /\ trail' = TrailStep(trail, cpu.continue_from = "StartOver", event,
                                 push_slot(cpu), (cpu.pc + 1) % 4096)
  /\ UNCHANGED <<arith, engine, i4004, alu, tms, tmsenv, peripherals>>

\* --- Spec4004: a short prelude, then one instruction of any opcode ----------

\* instructions of the prelude
MaxPrelude == 2

\* the prelude's bytes: NOP, FIM R0R1, LDM 5, STC (as operands: register pairs)
PreludeBytes == {0, 32, 213, 250}

\* second bytes offered to the last instruction: they include bytes that would
\* decode as SRC (0x2B), as an IO write (0xE1) and as the illegal 0xFF
ProbeOperands == {0, 43, 225, 255}

\* what an IO read answers
DataInputs == {0, 9, 15}

\* the split-phase engine may begin an instruction, or has one to finish
MayRun(limit) == trail.instrs < limit \/ cpu.continue_from # "StartOver"

Next4004 ==
  \/ /\ trail.instrs <= MaxPrelude
     /\ I4004_RunCycle(IF trail.instrs < MaxPrelude THEN PreludeBytes ELSE Bytes,
                       IF trail.instrs < MaxPrelude THEN PreludeBytes ELSE ProbeOperands,
                       DataInputs)
  \/ /\ MayRun(MaxPrelude + 1)
     /\ CPU_SetOpcode(IF cpu.continue_from = "StartOver"
                        THEN (IF trail.instrs < MaxPrelude THEN PreludeBytes ELSE Bytes)
                        ELSE (IF trail.instrs <= MaxPrelude THEN PreludeBytes
                              ELSE ProbeOperands))
  \/ /\ MayRun(MaxPrelude + 1)
     /\ CPU_RunCycle(DataInputs)
  \/ /\ trail.instrs <= MaxPrelude
     /\ SetTestFlag

IdleArith == arith = NoCall

\* a 4004 engine at reset, everything else idle
InitOn4004 == Init4004 /\ IdleArith /\ IdleAlu /\ IdleTms /\ IdlePeripherals

Spec4004 == InitOn4004 /\ [][Next4004]_vars

\* --- SpecStack: programs of JMS and BBL only, followed as long as they are
\* up to five JMS and then up to four BBL ------------------------------------

\* instructions of a run
MaxStackInstrs == 9

\* JMS into ROM chip 0, and BBL 7
StackOpcodes == {80, 199}

\* the JMS targets' offsets
StackOperands == {16, 32, 48, 64}

NextStack ==
  \/ /\ trail.ok /\ trail.instrs < MaxStackInstrs
     /\ I4004_RunCycle(StackOpcodes, StackOperands, {0})
  \/ /\ trail.ok /\ MayRun(MaxStackInstrs)
     /\ CPU_SetOpcode(IF cpu.continue_from = "StartOver" THEN StackOpcodes
                      ELSE StackOperands)
  \/ /\ trail.ok /\ MayRun(MaxStackInstrs)
     /\ CPU_RunCycle({0})

SpecStack == InitOn4004 /\ [][NextStack]_vars

Idle4004 ==
  /\ engine = "none" /\ i4004 = I4004_new /\ cpu = CPU_new
  /\ bus = NoBus /\ trail = [instrs |-> 0] @@ NoTrail

\* the helpers keep no state: a run makes one call, on any arguments
NextArith ==
  \/ arith = NoCall /\ ExecuteAdd /\ UNCHANGED <<vars4004, alu, tms, tmsenv, peripherals>>
  \/ arith = NoCall /\ ExecuteDaa /\ UNCHANGED <<vars4004, alu, tms, tmsenv, peripherals>>
  \/ arith = NoCall /\ AddThenDaa /\ UNCHANGED <<vars4004, alu, tms, tmsenv, peripherals>>

\* the helpers alone
InitOnArith == InitArith /\ Idle4004 /\ IdleAlu /\ IdleTms /\ IdlePeripherals

SpecArith == InitOnArith /\ [][NextArith]_vars

\* no instruction of the engine is half done
AtInstructionEnd == engine = "I4004" \/ cpu.continue_from = "StartOver"

\* C1: on both 4004 engines the call stack is four slots deep and wraps: after
\* five JMS, the BBL that follow (up to four) return to the return addresses
\* of the fifth, fourth, third and second JMS, in that order; no slot holds the
\* first JMS's return address any more, each holds that of the JMS (second to
\* fifth) that wrote it last.
C1_CallStackWraps ==
  (trail.ok /\ Len(trail.jms) = 5 /\ AtInstructionEnd) =>
    /\ trail.bbl >= 1 => Chip.pc = trail.jms[6 - trail.bbl]
    /\ \A i \in 0..3 : /\ trail.owner[i] \in 2..5
                       /\ Chip.stack[i] = trail.jms[trail.owner[i]]

\* C1 witness: five JMS with five different return addresses, then four BBL,
\* the last of which returned to the second JMS's return address
C1_Witness ==
  /\ trail.ok /\ Len(trail.jms) = 5 /\ trail.bbl = 4 /\ AtInstructionEnd
  /\ Cardinality({trail.jms[k] : k \in 1..5}) = 5
  /\ Chip.pc = trail.jms[2]
  /\ \A i \in 0..3 : Chip.stack[i] # trail.jms[1]

\* a step of the split-phase engine's run_cycle that returned
RunCycleReturned == engine = "CPU" /\ bus'.call = "run_cycle" /\ ~cpu'.aborted

\* C3: a run_cycle in a continuation phase leaves the phase StartOver whatever
\* the byte latched; a run_cycle in StartOver leaves a continuation phase
\* pending exactly when the opcode's high nibble is 1, 4, 5 or 7, or is 2 or 3
\* with an even low nibble, and leaves StartOver otherwise.
C3_SplitPhase ==
  [][ RunCycleReturned =>
        IF cpu.continue_from \in ContinuationPhases
          THEN cpu'.continue_from = "StartOver"
          ELSE IF \/ cpu.opcode \div 16 \in {1, 4, 5, 7}
                  \/ cpu.opcode \div 16 \in {2, 3} /\ cpu.opcode % 2 = 0
                 THEN cpu'.continue_from \in ContinuationPhases
                 ELSE cpu'.continue_from = "StartOver" ]_vars

\* C3 witness: back in StartOver after a run_cycle whose latched byte, 0x20,
\* would have begun a FIM had it been decoded (it was a second byte)
C3_Witness ==
  /\ engine = "CPU" /\ bus.call = "run_cycle" /\ ~cpu.aborted
  /\ cpu.opcode = 32 /\ cpu.continue_from = "StartOver"

\* C4: run_cycle returns SRC only in StartOver for high nibble 2 with an odd
\* low nibble (the byte packs register[low & 0xE] high, register[low] low),
\* Write only in StartOver for 0xE0..0xE7 (the byte packs the opcode's low
\* nibble high, the accumulator low) and Nothing in every other case, every
\* continuation phase included; set_opcode returns control lines other than
\* the default only in StartOver for an opcode with high nibble 0xE.
C4_SideChannel ==
  [][ /\ RunCycleReturned =>
          bus'.command =
            IF cpu.continue_from = "StartOver" /\ cpu.opcode \div 16 = 2
                 /\ cpu.opcode % 2 = 1
              THEN <<"SRC", cpu.regs[BitAnd(cpu.opcode % 16, 14)] * 16
                              + cpu.regs[cpu.opcode % 16]>>
            ELSE IF cpu.continue_from = "StartOver" /\ cpu.opcode \in 224..231
              THEN <<"Write", (cpu.opcode % 16) * 16 + cpu.acc>>
            ELSE <<"Nothing">>
      /\ (engine = "CPU" /\ bus'.call = "set_opcode" /\ bus'.control_lines # 0) =>
          (cpu.continue_from = "StartOver" /\ cpu'.opcode \div 16 = 14) ]_vars

\* C4 witness: SRC R0R1 returned 0xD5 after FIM R0R1, 0xD5
C4_Witness ==
  /\ engine = "CPU" /\ bus.call = "run_cycle" /\ cpu.opcode = 33
  /\ cpu.regs[0] = 13 /\ cpu.regs[1] = 5
  /\ bus.command = <<"SRC", 213>>

\* the arithmetic units alone
InitOnAlu == IdleAlu /\ IdleArith /\ Idle4004 /\ IdleTms /\ IdlePeripherals

NextAlu ==
  \/ HP_RunCycle
  \/ ALU_RunCycle

SpecALU == InitOnAlu /\ [][NextAlu]_vars

\* the word-select bit of digit i, digit 1 being the rightmost
MaskBit(mask, i) == (mask \div 2^(i - 1)) % 2 = 1

\* C9: in one cycle of an arithmetic unit (HP type 2, 14 digits; TMS0800 ALU,
\* 11 digits), whatever the micro-operation, the word select and the
\* direction, every digit of A, B and C whose word-select bit is 0 has after
\* the cycle the value it had before it, at the same position. (A cycle that
\* panics in a digit helper has no end; it is not a case of this claim.)
C9_DigitMaskFrame ==
  (alu.chip \in {"HP", "TMS"} /\ ~alu.after.aborted) =>
    \A i \in 1..Len(alu.before.a) :
      ~MaskBit(alu.mask, i) =>
        /\ alu.after.a[i] = alu.before.a[i]
        /\ alu.after.b[i] = alu.before.b[i]
        /\ alu.after.c[i] = alu.before.c[i]

\* C9 witness: a TMS0800 cycle running left over digits 3 to 5 that changed A
\* there and left a nonzero digit of A outside them
C9_Witness ==
  /\ alu.chip = "TMS" /\ alu.code = 23 /\ alu.mask = 28 /\ ~alu.after.aborted
  /\ alu.after.a # alu.before.a
  /\ alu.before.a[7] # 0 /\ alu.after.a[7] = alu.before.a[7]

\* a register of zeros, and a register moved by one digit with a zero entering
ZeroDigits(digits) == [i \in 1..digits |-> 0]

MovedUp(data) == <<0>> \o SubSeq(data, 1, Len(data) - 1)

MovedDown(data) == Tail(data) \o <<0>>

\* C10, the micro-operations without arithmetic at every digit: what the HP
\* operation codes that clear, copy, exchange and shift leave
HP_AtEveryDigit ==
  LET x == alu.before
      y == alu.after
  IN  /\ alu.code = 1 => y.b = ZeroDigits(HP_Digits) /\ y.a = x.a /\ y.c = x.c
      /\ alu.code = 6 => y.c = ZeroDigits(HP_Digits) /\ y.a = x.a /\ y.b = x.b
      /\ alu.code = 23 => y.a = ZeroDigits(HP_Digits) /\ y.b = x.b /\ y.c = x.c
      /\ alu.code = 4 => y.c = x.b /\ y.a = x.a /\ y.b = x.b
      /\ alu.code = 9 => y.b = x.a /\ y.a = x.a /\ y.c = x.c
      /\ alu.code = 12 => y.a = x.c /\ y.b = x.b /\ y.c = x.c
      /\ alu.code = 17 => y.b = x.c /\ y.c = x.b /\ y.a = x.a
      /\ alu.code = 25 => y.a = x.b /\ y.b = x.a /\ y.c = x.c
      /\ alu.code = 29 => y.a = x.c /\ y.c = x.a /\ y.b = x.b
      /\ alu.code = 8 => y.a = MovedUp(x.a) /\ y.b = x.b /\ y.c = x.c
      /\ alu.code = 18 => y.c = MovedDown(x.c) /\ y.a = x.a /\ y.b = x.b
      /\ alu.code = 20 => y.b = MovedDown(x.b) /\ y.a = x.a /\ y.c = x.c
      /\ alu.code = 22 => y.a = MovedDown(x.a) /\ y.b = x.b /\ y.c = x.c

\* C10, the same for the TMS0800: an addition of nothing to nothing clears its
\* destination, the exchange exchanges, a shift moves its destination
TMS_AtEveryDigit ==
  LET x == alu.before
      y == alu.after
      dest == ArgDest(alu.instruction.dest)
      others == {"a", "b", "c"} \ {dest}
  IN  /\ ( /\ alu.instruction.operation \in {"Add", "WaitForKey"}
           /\ alu.instruction.arg1 = "None" /\ alu.instruction.arg2 = "None"
           /\ dest # "none" ) =>
           /\ y[dest] = ZeroDigits(TMS_Digits) /\ ~y.carry
           /\ \A r \in others : y[r] = x[r]
      /\ alu.instruction.operation = "ExchangeAB" =>
           y.a = x.b /\ y.b = x.a /\ y.c = x.c
      /\ (alu.instruction.operation \in {"Shl", "Shr"} /\ dest # "none") =>
           /\ y[dest] = IF alu.code \in 23..25 THEN MovedDown(x[dest])
                        ELSE MovedUp(x[dest])
           /\ \A r \in others : y[r] = x[r]

\* C10: with a word select of all zeros a cycle leaves A, B and C as they
\* were and reports no carry (the HP chip records carries inverted), whatever
\* the micro-operation; with a word select of all ones the micro-operation
\* is applied at every one of the N digits: a 'register = 0' operation clears
\* all N digits, a copy copies, an exchange exchanges and a shift moves all N.
C10_MaskBoundaries ==
  /\ (alu.chip \in {"HP", "TMS"} /\ alu.mask = 0) =>
       /\ ~alu.after.aborted
       /\ alu.after.a = alu.before.a
       /\ alu.after.b = alu.before.b
       /\ alu.after.c = alu.before.c
       /\ IF alu.chip = "HP" THEN alu.after.next_carry ELSE ~alu.after.carry
  /\ (alu.chip = "HP" /\ alu.mask = 2^HP_Digits - 1 /\ ~alu.after.aborted) =>
       HP_AtEveryDigit
  /\ (alu.chip = "TMS" /\ alu.mask = 2^TMS_Digits - 1 /\ ~alu.after.aborted) =>
       TMS_AtEveryDigit

\* C10 witness: the HP operation 'A = 0' under a word select of all ones
\* cleared fourteen digits that were not zero
C10_Witness ==
  /\ alu.chip = "HP" /\ alu.code = 23 /\ alu.mask = 2^HP_Digits - 1
  /\ \A i \in 1..HP_Digits : alu.before.a[i] # 0 /\ alu.after.a[i] = 0

\* the TMS0800 alone
InitOnTms == InitTms /\ IdleArith /\ Idle4004 /\ IdleAlu /\ IdlePeripherals

NextTms ==
  \/ TMS_RunCycle(MaxTmsCycles)
  \/ tmsenv.cycles < MaxTmsCycles /\ TMS_SetKeypress

SpecTMS == InitOnTms /\ [][NextTms]_vars

\* a step that is one TMS0800::run_cycle, and the fields of the word it ran
TmsCycle == tmsenv'.cycles = tmsenv.cycles + 1

TmsClass(env) == env.opcode \div 512

TmsInstruction(env) == (env.opcode \div 16) % 32

TmsWordSelect(env) == WordSelectsSample[env.opcode % 16]

\* C2, as claimed: over any sequence of TMS0800::run_cycle calls the carry goes
\* from true to false only in a cycle whose instruction is a conditional jump
\* (class 0 or 1); no flag or keyboard instruction (class 2) and no register
\* instruction (class 3) takes it from true to false.
C2_StickyCarry ==
  [][ (TmsCycle /\ tms.carry /\ ~tms'.carry) => TmsClass(tmsenv') \in {0, 1} ]_vars

\* C2, amended: the carry goes from true to false only in a cycle whose
\* instruction is a conditional jump (class 0 or 1), or is SCAN (class 2,
\* instruction 22) run with a word select that names a digit while no key is
\* pressed; no other instruction takes it from true to false.
C2_StickyCarryButScan ==
  [][ (TmsCycle /\ tms.carry /\ ~tms'.carry) =>
        \/ TmsClass(tmsenv') \in {0, 1}
        \/ /\ TmsClass(tmsenv') = 2 /\ TmsInstruction(tmsenv') = 22
           /\ TmsWordSelect(tmsenv') # 0
           /\ tms.current_keypress = 0 ]_vars

\* C2 witness: a test of flag FA (class 2, instruction 26) over all eleven
\* digits, none of them set, ran with the carry set and left it set
C2_Witness ==
  /\ ~tms.aborted /\ tmsenv.cycles > 0 /\ tmsenv.carry_in /\ tms.carry
  /\ TmsClass(tmsenv) = 2 /\ TmsInstruction(tmsenv) = 26
  /\ TmsWordSelect(tmsenv) = 2047 /\ tms.fa = 0

\* C5: while no key is pressed a wait instruction (class 2, instruction 17 or
\* 18) leaves pc at the address of that same instruction, whatever the word
\* select; in the cycle in which a key is pressed pc becomes the
\* instruction's 9-bit target address.
C5_BusyWait ==
  [][ ( /\ TmsCycle /\ ~tms'.aborted
        /\ TmsClass(tmsenv') = 2 /\ TmsInstruction(tmsenv') \in {17, 18} ) =>
        IF tms.current_keypress = 0
          THEN tms'.pc = tms.pc
          ELSE tms'.pc = tmsenv'.opcode % 512 ]_vars

\* packed BCD: both nibbles are decimal digits
IsBCD(x) == x % 16 <= 9 /\ x \div 16 <= 9

\* the number a packed-BCD byte encodes
BCDValue(x) == (x \div 16) * 10 + (x % 16)

\* the packed-BCD byte of a number below 100
BCDByte(n) == (n \div 10) * 16 + (n % 10)

\* C6: for all bytes a and b, execute_add(a, b) returns the sum modulo 256,
\* carry = (a + b > 255) and half-carry = ((a & 0xF) + (b & 0xF) > 9).
C6_ExecuteAdd ==
  arith.fn = "execute_add" =>
    arith.out = <<(arith.a + arith.b) % 256,
                  arith.a + arith.b > 255,
                  (arith.a % 16) + (arith.b % 16) > 9>>

\* C6 witness: an add that wraps with a low-nibble sum of 10..15
C6_Witness ==
  /\ arith.fn = "execute_add"
  /\ arith.a = 136 /\ arith.b = 153
  /\ arith.out = <<33, TRUE, TRUE>>

\* C7: execute_daa(b, false, false) returns b unchanged for every byte b whose
\* two nibbles are both <= 9.
C7_DaaIdempotentOnBCD ==
  (arith.fn = "execute_daa" /\ IsBCD(arith.a) /\ ~arith.carry /\ ~arith.nibble_carry)
    => arith.out[1] = arith.a

\* C8: for packed-BCD a and b, execute_daa applied to what execute_add(a, b)
\* returned yields the packed-BCD byte of (a+b) mod 100 and carry = (a+b >= 100).
C8_DaaAfterAdd ==
  (arith.fn = "add_daa" /\ IsBCD(arith.a) /\ IsBCD(arith.b)) =>
    LET n == BCDValue(arith.a) + BCDValue(arith.b)
    IN  /\ arith.out[1] = BCDByte(n % 100)
        /\ arith.out[2] = (n >= 100)

\* the digits a word select names
SelectedDigits(mask, digits) == {i \in 1..digits : MaskBit(mask, i)}

\* C11: in one ALU::run_cycle of the TMS0800 on an instruction that has K as an
\* operand, constants[mask] is the K of the first digit at which the
\* micro-operation is applied and 0 is the K of every later one; a cycle that
\* runs to its end applies the micro-operation once per selected digit.
C11_ConstantLatch ==
  (alu.chip = "TMS" /\ "K" \in {alu.instruction.arg1, alu.instruction.arg2}) =>
    /\ \A i \in 1..Len(alu.after.ks) :
         alu.after.ks[i] = IF i = 1 THEN alu.k ELSE 0
    /\ ~alu.after.aborted =>
         Len(alu.after.ks) = Cardinality(SelectedDigits(alu.mask, TMS_Digits))

\* C11 witness: A = A + K with K = 1 over digits 3 to 5 added one to digit 3
\* and nothing to digits 4 and 5
C11_Witness ==
  /\ alu.chip = "TMS" /\ alu.code = 0 /\ alu.mask = 28 /\ alu.k = 1
  /\ alu.instruction = [operation |-> "Add", arg1 |-> "A", arg2 |-> "K",
                        dest |-> "A", hex |-> FALSE]
  /\ ~alu.after.aborted
  /\ alu.after.ks = <<1, 0, 0>>
  /\ alu.after.a[3] = alu.before.a[3] + 1
  /\ alu.after.a[4] = alu.before.a[4] /\ alu.after.a[5] = alu.before.a[5]

(***************************************************************************)
(* A Shifter64 on its own, src/src/shifter.rs                              *)
(***************************************************************************)

\* Here the register is the number the chip stores, so that a bit the code
\* writes above the width NUM_BITS is kept as the code keeps it.

\* digits of the register
MaxDigits64 == 2

\* const NUM_BITS of the register
NUM_BITS64 == 4 * MaxDigits64

\* Shifter64::shift_with_nibble
Shifter64_shift_with_nibble(data, direction, nibble, NUM_BITS) ==
  IF direction = "Left"
    THEN BitOr((data * 16) % 2^NUM_BITS, nibble)
    ELSE BitOr(data \div 16, nibble * 2^(NUM_BITS - 4))

\* Shifter64::read_nibble
Shifter64_read_nibble(data, direction, NUM_BITS) ==
  IF direction = "Left" THEN (data \div 2^(NUM_BITS - 4)) % 16 ELSE data % 16

\* Shifter64::shift_with_bit
Shifter64_shift_with_bit(data, direction, bit, NUM_BITS) ==
  LET shifted == IF direction = "Left" THEN (data * 2) % 2^NUM_BITS
                 ELSE data \div 2
  IN  IF bit
        THEN BitOr(shifted, IF direction = "Left" THEN 1 ELSE 2^NUM_BITS)
        ELSE shifted

\* digits offered to the register
DigitSamples == {0, 6, 15}

Directions == {"Left", "Right"}

\* calls made before the digits are written
MaxShifts64 == 2

\* Default: the register holds 0; written and got list the digits handed to
\* and read from the register since the first write, start what it held then
InitSh64 ==
  sh64 = [built |-> TRUE, data |-> 0, shifts |-> 0, direction |-> "none",
          start |-> 0, written |-> <<>>, got |-> <<>>]

\* shift_with_bit, before the digits are written
Sh64_ShiftWithBit ==
  /\ sh64.direction = "none" /\ sh64.shifts < MaxShifts64
  /\ \E d \in Directions, bit \in BOOLEAN :
       sh64' = [sh64 EXCEPT !.data = Shifter64_shift_with_bit(@, d, bit, NUM_BITS64),
                            !.shifts = @ + 1]
  /\ UNCHANGED <<arith, vars4004, alu, tms, tmsenv, f8, i8080, pulsed, hprom, indexer, cnt, board>>

\* shift_with_nibble, before the digits are written
Sh64_ShiftWithNibble ==
  /\ sh64.direction = "none" /\ sh64.shifts < MaxShifts64
  /\ \E d \in Directions, x \in DigitSamples :
       sh64' = [sh64 EXCEPT !.data = Shifter64_shift_with_nibble(@, d, x, NUM_BITS64),
                            !.shifts = @ + 1]
  /\ UNCHANGED <<arith, vars4004, alu, tms, tmsenv, f8, i8080, pulsed, hprom, indexer, cnt, board>>

\* shift_with_nibble(d, x): one of the digits x1..xN is written
Sh64_Write ==
  /\ Len(sh64.written) < MaxDigits64
  /\ \E d \in (IF sh64.direction = "none" THEN Directions ELSE {sh64.direction}),
        x \in DigitSamples :
       sh64' = [sh64 EXCEPT !.data = Shifter64_shift_with_nibble(@, d, x, NUM_BITS64),
                            !.direction = d,
                            !.start = IF sh64.direction = "none" THEN sh64.data ELSE @,
                            !.written = Append(@, x)]
  /\ UNCHANGED <<arith, vars4004, alu, tms, tmsenv, f8, i8080, pulsed, hprom, indexer, cnt, board>>

\* read_nibble(d), then shift_with_nibble(d, any digit)
Sh64_ReadShift ==
  /\ Len(sh64.written) = MaxDigits64 /\ Len(sh64.got) < MaxDigits64
  /\ \E x \in DigitSamples :
       sh64' = [sh64 EXCEPT
                  !.got = Append(@, Shifter64_read_nibble(sh64.data, sh64.direction,
                                                         NUM_BITS64)),
                  !.data = Shifter64_shift_with_nibble(@, sh64.direction, x,
                                                       NUM_BITS64)]
  /\ UNCHANGED <<arith, vars4004, alu, tms, tmsenv, f8, i8080, pulsed, hprom, indexer, cnt, board>>

InitOnSh64 ==
  /\ InitSh64 /\ IdleArith /\ Idle4004 /\ IdleAlu /\ IdleTms /\ IdleF8 /\ Idle8080
  /\ pulsed = Unbuilt /\ hprom = Unbuilt /\ indexer = Unbuilt /\ cnt = Unbuilt
  /\ board = Unbuilt

NextSh64 ==
  \/ Sh64_ShiftWithBit
  \/ Sh64_ShiftWithNibble
  \/ Sh64_Write
  \/ Sh64_ReadShift

SpecSh64 == InitOnSh64 /\ [][NextSh64]_vars

\* C12: whatever the register held, the digits x1..xN written with N calls
\* of shift_with_nibble(d, xi) are what N steps of read_nibble(d) followed by
\* a shift_with_nibble(d, any digit) read, in the order they were written.
C12_RoundTrip ==
  \A i \in 1..Len(sh64.got) : sh64.got[i] = sh64.written[i]

\* the round trip on a register whose contents fit its width when the first
\* digit is written
C12_RoundTripInWidth ==
  sh64.start < 2^NUM_BITS64 =>
    \A i \in 1..Len(sh64.got) : sh64.got[i] = sh64.written[i]

(***************************************************************************)
(* The 4003 shifter, PulsedShifter16<10> of src/src/shifter.rs             *)
(***************************************************************************)

\* const NUM_BITS of the I4003
I4003_Bits == 10

\* a read_write_serial that shifts whenever the pulse is low
read_write_serial_level(s, direction, in_bit, pulse) ==
  [data |-> IF ~pulse
              THEN shift_with_bit(s.data, direction, in_bit, I4003_Bits)
              ELSE s.data,
   pulse |-> pulse,
   out |-> read_bit(s.data, direction, I4003_Bits)]

\* PulsedShifter16::read_write_serial: the chip's two fields after the call
\* and the bit it returns
read_write_serial(s, direction, in_bit, pulse) ==
  [data |-> IF s.pulse /\ ~pulse
              THEN shift_with_bit(s.data, direction, in_bit, I4003_Bits)
              ELSE s.data,
   pulse |-> pulse,
   out |-> read_bit(s.data, direction, I4003_Bits)]

\* calls of a run
MaxPulses == 8

\* PulsedShifter16::new (Default); last is the last call: its arguments, what
\* the chip held before it, the pulse argument of the call before it (low if
\* there was none) and the bit returned
InitPulsed ==
  pulsed = [built |-> TRUE, data |-> 0, pulse |-> FALSE, calls |-> 0,
            last |-> [direction |-> "none", in_bit |-> FALSE, pulse |-> FALSE,
                      before |-> 0, pulse_before |-> FALSE, out |-> FALSE]]

\* a call of read_write_serial
Pulsed_ReadWriteSerial ==
  /\ pulsed.calls < MaxPulses
  /\ \E direction \in Directions, in_bit \in BOOLEAN, pulse \in BOOLEAN :
       LET r == read_write_serial(pulsed, direction, in_bit, pulse)
       IN  pulsed' = [built |-> TRUE, data |-> r.data, pulse |-> r.pulse,
                      calls |-> pulsed.calls + 1,
                      last |-> [direction |-> direction, in_bit |-> in_bit,
                                pulse |-> pulse, before |-> pulsed.data,
                                pulse_before |-> pulsed.last.pulse,
                                out |-> r.out]]
  /\ UNCHANGED <<arith, vars4004, alu, tms, tmsenv, f8, i8080, sh64, hprom, indexer, cnt, board>>

InitOnPulsed ==
  /\ InitPulsed /\ IdleArith /\ Idle4004 /\ IdleAlu /\ IdleTms /\ IdleF8 /\ Idle8080
  /\ sh64 = Unbuilt /\ hprom = Unbuilt /\ indexer = Unbuilt /\ cnt = Unbuilt
  /\ board = Unbuilt

NextPulsed == Pulsed_ReadWriteSerial

SpecPulsed == InitOnPulsed /\ [][NextPulsed]_vars

\* the last call came on a falling edge: the call before it had the pulse
\* high, it has the pulse low
FallingEdge == pulsed.last.pulse_before /\ ~pulsed.last.pulse

\* C13 as stated: after any call of read_write_serial the stored bits differ
\* from those before the call if and only if the call came on a falling edge;
\* the bit returned is the end bit as it was before the call.
C13_ChangeIffFallingEdge ==
  pulsed.calls > 0 =>
    /\ (pulsed.data # pulsed.last.before) <=> FallingEdge
    /\ pulsed.last.out = read_bit(pulsed.last.before, pulsed.last.direction,
                                  I4003_Bits)

\* C13 amended: after any call of read_write_serial the stored bits are the
\* bits before the call shifted once with in_bit if the call came on a falling
\* edge, and the bits before the call otherwise (in_bit ignored); the bit
\* returned is the end bit as it was before the call.
C13_ShiftIffFallingEdge ==
  pulsed.calls > 0 =>
    /\ pulsed.data = IF FallingEdge
                       THEN shift_with_bit(pulsed.last.before, pulsed.last.direction,
                                           pulsed.last.in_bit, I4003_Bits)
                       ELSE pulsed.last.before
    /\ pulsed.last.out = read_bit(pulsed.last.before, pulsed.last.direction,
                                  I4003_Bits)

\* C13 witness: a low pulse after a low pulse left a nonzero register alone
\* though in_bit was high, and returned its end bit
C13_Witness ==
  /\ pulsed.calls > 2 /\ ~FallingEdge /\ ~pulsed.last.pulse
  /\ pulsed.last.in_bit /\ pulsed.last.direction = "Left"
  /\ pulsed.last.before = 3 /\ pulsed.data = 3 /\ ~pulsed.last.out

(***************************************************************************)
(* Short programs of calls and returns in any order                        *)
(***************************************************************************)

\* instructions of a run
MaxCallInstrs == 3

NextCalls ==
  \/ /\ trail.instrs < MaxCallInstrs
     /\ I4004_RunCycle(StackOpcodes, StackOperands, {0})
  \/ /\ MayRun(MaxCallInstrs)
     /\ CPU_SetOpcode(IF cpu.continue_from = "StartOver" THEN StackOpcodes
                      ELSE StackOperands)
  \/ /\ MayRun(MaxCallInstrs)
     /\ CPU_RunCycle({0})

SpecCalls == InitOn4004 /\ [][NextCalls]_vars

\* C14: on both 4004 engines a BBL executed while push_count is 0 leaves the
\* four stack slots, the stack index and push_count as they were and the
\* program counter at the address after the BBL; the accumulator becomes the
\* opcode's low nibble and no register, flag or other field changes (the
\* split-phase engine also latches the low nibble as previous_modifier, as it
\* does for every opcode).
C14_PopNothingPending ==
  [][ /\ ( /\ engine = "I4004" /\ bus'.call = "run_cycle"
           /\ bus'.fetched \div 16 = 12 /\ i4004.push_count = 0 ) =>
            i4004' = [i4004 EXCEPT !.pc = (i4004.pc + 1) % 4096,
                                   !.acc = bus'.fetched % 16]
      /\ ( /\ engine = "CPU" /\ bus'.call = "run_cycle"
           /\ cpu.continue_from = "StartOver"
           /\ cpu.opcode \div 16 = 12 /\ cpu.push_count = 0 ) =>
            cpu' = [cpu EXCEPT !.pc = (cpu.pc + 1) % 4096,
                               !.acc = cpu.opcode % 16,
                               !.previous_modifier = cpu.opcode % 16] ]_vars

\* C14 witness: JMS at 0, BBL 7 at its target (back to 2), BBL 7 at 2 with no
\* push pending: the program counter is 3, slot 0 still holds 2
C14_Witness ==
  /\ AtInstructionEnd /\ trail.instrs = 3 /\ bus.call = "run_cycle"
  /\ Chip.pc = 3 /\ Chip.stack[0] = 2 /\ Chip.effective_address = 0
  /\ Chip.push_count = 0 /\ Chip.acc = 7

(***************************************************************************)
(* Short programs at the top of the address space                          *)
(***************************************************************************)

\* instructions of a run
MaxWrapInstrs == 3

\* NOP, FIM R0R1, JUN and JMS into ROM chip 15, BBL 0
WrapOpcodes == {0, 32, 79, 95, 192}

\* second bytes: with JUN and JMS they give the targets 0xFFE and 0xFFF
WrapOperands == {254, 255}

NextWrap ==
  \/ /\ trail.instrs < MaxWrapInstrs
     /\ I4004_RunCycle(WrapOpcodes, WrapOperands, {0})
  \/ /\ MayRun(MaxWrapInstrs)
     /\ CPU_SetOpcode(IF cpu.continue_from = "StartOver" THEN WrapOpcodes
                      ELSE WrapOperands)
  \/ /\ MayRun(MaxWrapInstrs)
     /\ CPU_RunCycle({0})

SpecWrap == InitOn4004 /\ [][NextWrap]_vars

\* the program counter and the four stack slots are 12-bit addresses
AddressesIn12Bits ==
  /\ Chip.pc \in 0..4095
  /\ \A i \in 0..3 : Chip.stack[i] \in 0..4095

\* opcodes that run straight on: NOP, FIM and SRC, INC, ADD to LDM, the IO
\* and accumulator groups
StraightOn(opcode) == opcode \div 16 \in {0, 2, 6, 8, 9, 10, 11, 13, 14, 15}

\* C15: from reset, under any ROM contents, the program counter and every
\* stored return address stay at most 0xFFF on both engines; a byte fetched at
\* 0xFFF leaves the program counter at 0x000 (at 0x001 once the single-call
\* engine has fetched the second byte of the instruction as well).
C15_PcBound ==
  /\ AddressesIn12Bits
  /\ [][ /\ AddressesIn12Bits'
         /\ ( /\ engine = "I4004" /\ bus'.call = "run_cycle" /\ ~i4004'.aborted
              /\ i4004.pc = 4095 /\ StraightOn(bus'.fetched) ) =>
               i4004'.pc = IF two_bytes(bus'.fetched) THEN 1 ELSE 0
         /\ ( /\ engine = "CPU" /\ bus'.call = "run_cycle" /\ ~cpu'.aborted
              /\ cpu.pc = 4095
              /\ \/ cpu.continue_from \in {"SetReg", "SetIndirectReg"}
                 \/ cpu.continue_from = "StartOver" /\ cpu.opcode \div 16 \notin {3, 12} ) =>
               cpu'.pc = 0 ]_vars

\* C15 witness: a JMS fetched at 0xFFF; its second byte was fetched at 0x000
\* and the return address it stored is 0x001
C15_Witness ==
  /\ AtInstructionEnd /\ trail.instrs = 2 /\ bus.call = "run_cycle"
  /\ Chip.push_count = 1 /\ Chip.stack[0] = 1 /\ Chip.pc >= 4094

(***************************************************************************)
(* HP ROM chips on a common bus, src/src/rom/hp_rom.rs                     *)
(***************************************************************************)

\* HP_ROM::read, the word select generated for a type 2 opcode
WordSelectOf(opcode) ==
  LET field == opcode % 32
  IN  CASE field = 10 -> 7
        [] field = 26 -> 4
        [] field = 6 -> 8184
        [] field = 22 -> 16376
        [] field = 14 -> 16383
        [] field = 30 -> 8192
        [] OTHER -> 0

\* HP_ROM::new: who_am_i is the key under which the board keeps the chip
HP_ROM_new(who_am_i) ==
  [output_enable |-> who_am_i = 0, delayed_output_enable |-> "None"]

\* HP_ROM::read, what it returns: stored is unpack_data(addr)
HP_ROM_read_out(chip, stored) ==
  IF chip.output_enable
    THEN [opcode |-> stored, word_select |-> WordSelectOf(stored)]
    ELSE [opcode |-> 0, word_select |-> 0]

\* a read that never lets a delayed output enable take effect
HP_ROM_read_keeps_delay(chip) == chip

\* HP_ROM::read, the chip after it: a delayed output enable takes effect
HP_ROM_read(chip) ==
  IF chip.delayed_output_enable # "None"
    THEN [output_enable |-> chip.delayed_output_enable = "Some(true)",
          delayed_output_enable |-> "None"]
    ELSE chip

\* a ROM SELECT decoder that enables the chip named and disables no other
HP_ROM_decode_enable_only(chip, who_am_i, opcode) ==
  LET rom_num == opcode \div 128
  IN  CASE opcode % 128 = 16 ->
             IF who_am_i = rom_num THEN [chip EXCEPT !.output_enable = TRUE] ELSE chip
        [] opcode % 128 = 116 ->
             [chip EXCEPT !.delayed_output_enable =
                            IF who_am_i = rom_num THEN "Some(true)" ELSE "Some(false)"]
        [] OTHER -> chip

\* HP_ROM::decode, for an opcode it does not abort on
HP_ROM_decode(chip, who_am_i, opcode) ==
  LET rom_num == opcode \div 128
  IN  CASE opcode % 128 = 16 -> [chip EXCEPT !.output_enable = (who_am_i = rom_num)]
        [] opcode % 128 = 116 ->
             [chip EXCEPT !.delayed_output_enable =
                            IF who_am_i = rom_num THEN "Some(true)" ELSE "Some(false)"]
        [] OTHER -> chip

\* HP_ROM::decode: DELAYED ROM GROUP is todo!()
HP_ROM_decode_aborts(opcode) == opcode % 128 = 52 /\ opcode \div 512 = 1

RECURSIVE OrAll(_, _)
\* Board::run_cycle, `opcode |= opcode_rom` over the chips
OrAll(S, f) ==
  IF S = {} THEN 0
  ELSE LET x == CHOOSE y \in S : TRUE
       IN  BitOr(f[x], OrAll(S \ {x}, f))

\* the who_am_i of the chips of a board
ChipSets == {{0}, {0, 1}, {0, 1, 2}, {1, 2}, {0, 5}}

\* opcodes a ROM may hold at the address read: NOP, type 2 over the entire
\* word and over the exponent, ROM SELECT 0, 1, 2 and 5, DELAYED SELECT ROM
\* 0, 1 and 2, DELAYED ROM GROUP, and its pattern with bit 9 clear
StoredSamples ==
  {0, 14, 330, 16, 128 + 16, 256 + 16, 640 + 16,
   116, 128 + 116, 256 + 116, 512 + 52, 52}

\* cycles of a run
MaxRomCycles == 3

\* Board::new: the chips; last holds what each chip returned at the last
\* read, which chips had their output enabled then, and the combined bus;
\* fetches holds the same of every read so far, oldest first
InitHpRom ==
  \E whos \in ChipSets :
    hprom = [built |-> TRUE, chips |-> [w \in whos |-> HP_ROM_new(w)],
             cycles |-> 0, aborted |-> FALSE,
             last |-> [out |-> [w \in whos |-> [opcode |-> 0, word_select |-> 0]],
                       enabled |-> {}, opcode |-> 0, word_select |-> 0],
             fetches |-> <<>>]

\* Board::run_cycle, the ROM part: every chip reads, the outputs are or-ed,
\* every chip decodes the combined opcode
HpRom_Cycle ==
  /\ ~hprom.aborted /\ hprom.cycles < MaxRomCycles
  /\ LET whos == DOMAIN hprom.chips
         enabled == {w \in whos : hprom.chips[w].output_enable}
     IN  \E held \in [enabled -> StoredSamples] :
           LET out == [w \in whos |->
                         HP_ROM_read_out(hprom.chips[w],
                                         IF w \in enabled THEN held[w] ELSE 0)]
               opcode == OrAll(whos, [w \in whos |-> out[w].opcode])
               word_select == OrAll(whos, [w \in whos |-> out[w].word_select])
               after_read == [w \in whos |-> HP_ROM_read(hprom.chips[w])]
           IN  hprom' = [built |-> TRUE,
                         chips |-> IF HP_ROM_decode_aborts(opcode) THEN after_read
                                   ELSE [w \in whos |->
                                           HP_ROM_decode(after_read[w], w, opcode)],
                         cycles |-> hprom.cycles + 1,
                         aborted |-> HP_ROM_decode_aborts(opcode),
                         last |-> [out |-> out, enabled |-> enabled,
                                   opcode |-> opcode, word_select |-> word_select],
                         fetches |-> Append(hprom.fetches,
                                            [out |-> out, enabled |-> enabled,
                                             opcode |-> opcode])]
  /\ UNCHANGED <<arith, vars4004, alu, tms, tmsenv, f8, i8080, sh64, pulsed, indexer, cnt, board>>

InitOnHpRom ==
  /\ InitHpRom /\ IdleArith /\ Idle4004 /\ IdleAlu /\ IdleTms /\ IdleF8 /\ Idle8080
  /\ sh64 = Unbuilt /\ pulsed = Unbuilt /\ indexer = Unbuilt /\ cnt = Unbuilt
  /\ board = Unbuilt

NextHpRom == HpRom_Cycle

SpecHpRom == InitOnHpRom /\ [][NextHpRom]_vars

\* the chips whose output is enabled now
EnabledNow == {w \in DOMAIN hprom.chips : hprom.chips[w].output_enable}

\* C16: on a board of HP_ROM chips with distinct who_am_i, where every cycle
\* each chip reads and then decodes the or of the opcodes read: at most one
\* chip has its output enabled at every read (and between cycles); a chip whose
\* output was disabled returned opcode 0 and word select 0; the or of the
\* outputs is the output of the enabled chip (0 if there is none); before the
\* first cycle only ROM 0 is enabled.
C16_OneDriver ==
  /\ Cardinality(EnabledNow) <= 1
  /\ Cardinality(hprom.last.enabled) <= 1
  /\ hprom.cycles = 0 => EnabledNow = DOMAIN hprom.chips \cap {0}
  /\ \A w \in DOMAIN hprom.chips :
       /\ w \notin hprom.last.enabled =>
            hprom.last.out[w] = [opcode |-> 0, word_select |-> 0]
       /\ w \in hprom.last.enabled =>
            /\ hprom.last.opcode = hprom.last.out[w].opcode
            /\ hprom.last.word_select = hprom.last.out[w].word_select
  /\ hprom.last.enabled = {} => hprom.last.opcode = 0 /\ hprom.last.word_select = 0

\* C16 witness: on a board of three chips ROM 2, selected earlier, drove a
\* type 2 opcode and its word select onto the bus while ROM 0 and ROM 1
\* returned zeros
C16_Witness ==
  /\ DOMAIN hprom.chips = {0, 1, 2} /\ hprom.cycles >= 2
  /\ hprom.last.enabled = {2}
  /\ hprom.last.opcode = 14 /\ hprom.last.word_select = 16383
  /\ hprom.last.out[0].opcode = 0 /\ hprom.last.out[1].opcode = 0

(***************************************************************************)
(* HP_ROM::unpack_data, src/src/rom/hp_rom.rs                              *)
(***************************************************************************)

\* bytes of packed_data
PackedLen == 320

\* opcodes of a ROM chip
OpcodesPerRom == 256

\* an unpack_data that takes the first byte unshifted
unpack_data_unshifted(packed_data, index) ==
  LET bit_start == index * 10
      first_byte_index == bit_start \div 8
      second_byte_index == first_byte_index + 1
      bits_from_first_byte == 8 - (bit_start % 8)
  IN  IF second_byte_index >= PackedLen THEN [value |-> 0, aborted |-> TRUE]
      ELSE [value |-> BitAnd(BitOr(packed_data[first_byte_index],
                                   packed_data[second_byte_index]
                                     * 2^bits_from_first_byte), 1023),
            aborted |-> FALSE]

\* HP_ROM::unpack_data: the u10 it returns, or the panic ('Index out of
\* bounds', or u10::new on a value that needs more than ten bits)
unpack_data(packed_data, index) ==
  LET bit_start == index * 10
      first_byte_index == bit_start \div 8
      second_byte_index == first_byte_index + 1
      first_byte == packed_data[first_byte_index]
      second_byte == packed_data[second_byte_index]
      bits_from_first_byte == 8 - (bit_start % 8)
      value == BitOr(first_byte \div 2^(8 - bits_from_first_byte),
                     BitAnd((second_byte * 2^bits_from_first_byte) % 65536, 1023))
  IN  IF second_byte_index >= PackedLen THEN [value |-> 0, aborted |-> TRUE]
      ELSE IF value > 1023 THEN [value |-> 0, aborted |-> TRUE]
      ELSE [value |-> value, aborted |-> FALSE]

\* The images offered store opcode i = (mul * i + add) mod 1024 for every i:
\* all ones, a stride that visits every bit pattern, neighbours that differ,
\* the index itself, and alternating bits
ImageSamples ==
  {[mul |-> 0, add |-> 1023], [mul |-> 37, add |-> 5], [mul |-> 4, add |-> 3],
   [mul |-> 1, add |-> 0], [mul |-> 341, add |-> 682]}

\* the opcode an image stores at index i
OpcodeAt(img, i) == (img.mul * i + img.add) % 1024

\* bit n of the image's bit stream: opcode n / 10, its bit n mod 10
StreamBit(img, n) == (OpcodeAt(img, n \div 10) \div 2^(n % 10)) % 2

\* the 320 bytes of the image: byte j holds stream bits 8j .. 8j + 7, the
\* earliest in its lowest bit
PackedImage(img) ==
  [j \in 0..(PackedLen - 1) |->
     StreamBit(img, 8 * j) + 2 * StreamBit(img, 8 * j + 1)
       + 4 * StreamBit(img, 8 * j + 2) + 8 * StreamBit(img, 8 * j + 3)
       + 16 * StreamBit(img, 8 * j + 4) + 32 * StreamBit(img, 8 * j + 5)
       + 64 * StreamBit(img, 8 * j + 6) + 128 * StreamBit(img, 8 * j + 7)]

\* no call of unpack_data made yet
InitUnpack == hprom = [built |-> TRUE, called |-> FALSE]

\* HP_ROM::read calls unpack_data(addr) on the chip's image
Unpack_Call ==
  /\ ~hprom.called
  /\ \E img \in ImageSamples, index \in 0..(OpcodesPerRom - 1) :
       hprom' = [built |-> TRUE, called |-> TRUE, image |-> img, index |-> index,
                 out |-> unpack_data(PackedImage(img), index)]
  /\ UNCHANGED <<arith, vars4004, alu, tms, tmsenv, f8, i8080, sh64, pulsed, indexer, cnt, board>>

InitOnUnpack ==
  /\ InitUnpack /\ IdleArith /\ Idle4004 /\ IdleAlu /\ IdleTms /\ IdleF8 /\ Idle8080
  /\ sh64 = Unbuilt /\ pulsed = Unbuilt /\ indexer = Unbuilt /\ cnt = Unbuilt
  /\ board = Unbuilt

NextUnpack == Unpack_Call

SpecUnpack == InitOnUnpack /\ [][NextUnpack]_vars

\* C17: on a 320-byte image that stores 256 ten-bit opcodes as a little-endian
\* bit stream, unpack_data(i) returns opcode i for every i in 0..255 and
\* never aborts.
C17_Unpack ==
  hprom.called =>
    /\ ~hprom.out.aborted
    /\ hprom.out.value = OpcodeAt(hprom.image, hprom.index)

\* C17 witness: the last opcode of an image, whose second byte is byte 319,
\* read back with bits set in both bytes
C17_Witness ==
  /\ hprom.called /\ hprom.index = 255 /\ ~hprom.out.aborted
  /\ hprom.out.value = 1023

(***************************************************************************)
(* Register files, src/src/indexer.rs                                      *)
(***************************************************************************)

\* The data word is kept as its nibbles, nibble 0 the lowest: every shift the
\* nibble operations make is by a multiple of four bits. count is the number
\* of nibbles, 16 for Indexer64 and 4 for Indexer16.

\* nibbles of the data word of a chip
NibbleCount(kind) == IF kind = "Indexer64" THEN 16 ELSE 4

\* `index * 4` on a u8, then a shift of the data word by it: a debug build
\* panics when the product passes 255 or the shift reaches the word's width,
\* a release build wraps the product and masks the shift amount. The nibble
\* the shift reaches, or -1 for a panic.
ShiftedNibble(index, count, build) ==
  LET product == index * 4
      bits == count * 4
  IN  IF product > 255 \/ product >= bits
        THEN IF build = "debug" THEN -1 ELSE ((product % 256) % bits) \div 4
        ELSE product \div 4

\* read_nibble: the nibble returned
Indexer_read_nibble(data, index, count, build) ==
  LET n == ShiftedNibble(index, count, build)
  IN  IF n = -1 THEN [value |-> 0, aborted |-> TRUE]
      ELSE [value |-> data[n], aborted |-> FALSE]

\* write_nibble: the data word after it
Indexer_write_nibble(data, index, nibble, count, build) ==
  LET n == ShiftedNibble(index, count, build)
  IN  IF n = -1 THEN [data |-> data, aborted |-> TRUE]
      ELSE [data |-> [data EXCEPT ![n] = nibble], aborted |-> FALSE]

\* indices offered: in range for both chips, in range for Indexer64 only,
\* past 16, and such that index * 4 passes 255
IndexSamples == {0, 3, 5, 15, 16, 19, 63, 64, 67, 255}

\* calls of a run
MaxIndexerCalls == 3

\* Indexer64::new, Indexer16::new: the data word is 0
InitIndexer ==
  \E kind \in {"Indexer64", "Indexer16"}, build \in {"debug", "release"} :
    indexer = [built |-> TRUE, kind |-> kind, build |-> build,
               data |-> [n \in 0..(NibbleCount(kind) - 1) |-> 0],
               aborted |-> FALSE, calls |-> 0,
               last |-> [op |-> "none"]]

\* a call of write_nibble
Indexer_Write ==
  /\ ~indexer.aborted /\ indexer.calls < MaxIndexerCalls
  /\ \E index \in IndexSamples, nibble \in DigitSamples :
       LET r == Indexer_write_nibble(indexer.data, index, nibble,
                                     NibbleCount(indexer.kind), indexer.build)
       IN  indexer' = [indexer EXCEPT
                         !.data = r.data, !.aborted = r.aborted, !.calls = @ + 1,
                         !.last = [op |-> "write_nibble", index |-> index,
                                   nibble |-> nibble, before |-> indexer.data]]
  /\ UNCHANGED <<arith, vars4004, alu, tms, tmsenv, f8, i8080, sh64, pulsed, hprom, cnt, board>>

\* a call of read_nibble
Indexer_Read ==
  /\ ~indexer.aborted /\ indexer.calls < MaxIndexerCalls
  /\ \E index \in IndexSamples :
       LET r == Indexer_read_nibble(indexer.data, index,
                                    NibbleCount(indexer.kind), indexer.build)
       IN  indexer' = [indexer EXCEPT
                         !.aborted = r.aborted, !.calls = @ + 1,
                         !.last = [op |-> "read_nibble", index |-> index,
                                   nibble |-> r.value, before |-> indexer.data]]
  /\ UNCHANGED <<arith, vars4004, alu, tms, tmsenv, f8, i8080, sh64, pulsed, hprom, cnt, board>>

InitOnIndexer ==
  /\ InitIndexer /\ IdleArith /\ Idle4004 /\ IdleAlu /\ IdleTms /\ IdleF8 /\ Idle8080
  /\ sh64 = Unbuilt /\ pulsed = Unbuilt /\ hprom = Unbuilt /\ cnt = Unbuilt
  /\ board = Unbuilt

NextIndexer ==
  \/ Indexer_Write
  \/ Indexer_Read

SpecIndexer == InitOnIndexer /\ [][NextIndexer]_vars

\* C18: read_nibble(i) and write_nibble(i, v) never abort and address nibble
\* i mod 16 of an Indexer64 (i mod 4 of an Indexer16) for every 8-bit index i:
\* a write leaves v there and every other nibble as it was, a read returns
\* what is there and changes nothing.
C18_IndexWraps ==
  indexer.last.op # "none" =>
    LET n == indexer.last.index % NibbleCount(indexer.kind)
    IN  /\ ~indexer.aborted
        /\ indexer.last.op = "write_nibble" =>
             indexer.data = [indexer.last.before EXCEPT ![n] = indexer.last.nibble]
        /\ indexer.last.op = "read_nibble" =>
             /\ indexer.last.nibble = indexer.last.before[n]
             /\ indexer.data = indexer.last.before

\* the same, for the calls that return
C18_IndexWrapsIfReturns ==
  (indexer.last.op # "none" /\ ~indexer.aborted) =>
    LET n == indexer.last.index % NibbleCount(indexer.kind)
    IN  /\ indexer.last.op = "write_nibble" =>
             indexer.data = [indexer.last.before EXCEPT ![n] = indexer.last.nibble]
        /\ indexer.last.op = "read_nibble" =>
             /\ indexer.last.nibble = indexer.last.before[n]
             /\ indexer.data = indexer.last.before

(***************************************************************************)
(* Decode of the single-call I4004, src/src/cpu/i4004.rs                   *)
(***************************************************************************)

\* the bytes no arm of run_cycle's match takes: they reach unreachable!
UnknownOpcodes == (1..15) \cup {227, 255}

\* second bytes offered: every byte that is unknown as an opcode, and bytes
\* that decode as NOP, SRC, an IO write and the accepted 0xFE
DecodeOperands == UnknownOpcodes \cup {0, 43, 225, 254}

\* instructions before the one decoded
MaxDecodePrelude == 1

\* a short prelude, then one instruction of any opcode and any offered second byte
NextDecode ==
  \/ /\ trail.instrs <= MaxDecodePrelude
     /\ I4004_RunCycle(IF trail.instrs < MaxDecodePrelude THEN PreludeBytes ELSE Bytes,
                       IF trail.instrs < MaxDecodePrelude THEN PreludeBytes
                       ELSE DecodeOperands,
                       DataInputs)
  \/ /\ trail.instrs <= MaxDecodePrelude
     /\ SetTestFlag

InitOnDecode == InitOn4004 /\ engine = "I4004"

SpecDecode == InitOnDecode /\ [][NextDecode]_vars

\* C19: a call of I4004::run_cycle aborts exactly when the opcode byte it
\* fetched is one of 0x01..0x0F, 0xE3, 0xFF (0xFE returns, changing nothing but
\* pc), whatever second byte a two-byte instruction reads.
C19_FatalDecode ==
  [][ (engine = "I4004" /\ bus'.call = "run_cycle") =>
        /\ i4004'.aborted <=> bus'.fetched \in UnknownOpcodes
        /\ bus'.fetched = 254 => i4004' = next_rom_byte(i4004) ]_vars

\* a JMS has read 0xFF, unknown as an opcode, as its second byte, and the call
\* returned with the program counter on it
C19_Witness ==
  /\ engine = "I4004" /\ bus.call = "run_cycle"
  /\ bus.fetched = 95 /\ bus.operand = 255 /\ ~i4004.aborted /\ i4004.pc = 4095

(***************************************************************************)
(* HP Control and Timing chip, src/src/cpu/hp_cnt.rs                       *)
(***************************************************************************)

\* status flags of the chip
StatusFlags == 12

\* HP_CnT::new. current_keypress is <<>> for None and <<k>> for Some(k); build
\* says whether the u8 and u16 arithmetic is overflow-checked.
HP_CnT_new(build) ==
  [built |-> TRUE, build |-> build,
   next_address |-> 0, saved_address |-> 0,
   status |-> [n \in 0..(StatusFlags - 1) |-> FALSE],
   pointer |-> 0, carry |-> FALSE, current_keypress |-> <<>>, timer |-> 0,
   out |-> 0, aborted |-> FALSE]

increment_pointer(s) == [s EXCEPT !.pointer = IF s.pointer = 15 THEN 0 ELSE s.pointer + 1]

decrement_pointer(s) == [s EXCEPT !.pointer = IF s.pointer = 0 THEN 15 ELSE s.pointer - 1]

\* u14::new: a value past 14 bits is refused
u14_new(s, value) ==
  IF value > 16383 THEN [s EXCEPT !.aborted = TRUE] ELSE [s EXCEPT !.out = value]

\* Type 3, low nibble 0001, 0101, 1001: self.status[value as usize], an
\* index into [bool; 12]
status_access(s, low, value) ==
  IF value >= StatusFlags
    THEN [s EXCEPT !.aborted = TRUE]
    ELSE CASE low = 1 -> [s EXCEPT !.status[value] = TRUE]
           [] low = 5 -> [s EXCEPT !.carry = ~s.status[value]]
           [] OTHER   -> [s EXCEPT !.status[value] = FALSE]

\* the `_` arm of the class match: control instructions
HP_CnT_control(s, byte_opcode) ==
  LET value == byte_opcode \div 16
      low == byte_opcode % 16
  IN  CASE low = 0 -> s
        [] low \in {1, 5, 9} -> status_access(s, low, value)
        [] low = 13 -> IF value = 0
                         THEN [s EXCEPT !.status = [n \in 0..(StatusFlags - 1) |-> FALSE]]
                         ELSE s
        [] low = 3 -> [s EXCEPT !.pointer = value]
        [] low = 7 -> decrement_pointer(s)
        [] low = 11 -> [s EXCEPT !.carry = (s.pointer # value)]
        [] low = 15 -> increment_pointer(s)
        [] low \in {2, 10, 14} -> s
        [] low = 6 -> LET word_select_data == 2^(s.pointer)
                          t == decrement_pointer(s)
                      IN  IF word_select_data <= 16383
                            THEN [t EXCEPT !.out = word_select_data] ELSE t
        [] low \in {4, 12} ->
             ( CASE byte_opcode % 32 = 4 -> s
                 [] byte_opcode % 32 = 12 -> [s EXCEPT !.next_address = s.saved_address]
                 [] byte_opcode % 32 = 20 ->
                      IF byte_opcode \div 32 = 1
                        THEN [s EXCEPT !.next_address =
                                IF s.current_keypress = <<>> THEN 0
                                ELSE s.current_keypress[1]]
                        ELSE [s EXCEPT !.aborted = TRUE]
                 [] OTHER -> s )
        [] OTHER -> [s EXCEPT !.aborted = TRUE]

\* HP_CnT::run_cycle(opcode, carry): the chip afterwards, out the word select
\* data returned
HP_CnT_run_cycle(s0, opcode, carry_in) ==
  LET byte_opcode == opcode \div 4
      carry == carry_in /\ s0.carry
      s == [s0 EXCEPT !.timer = IF s0.timer > 0 THEN s0.timer - 1 ELSE 0,
                      !.next_address = (s0.next_address + 1) % 256,
                      !.carry = TRUE, !.out = 0]
  IN  IF s0.timer = 1 THEN [s0 EXCEPT !.timer = 0, !.aborted = TRUE]
      ELSE IF s0.next_address = 255 /\ s0.build = "debug"
        THEN [s0 EXCEPT !.aborted = TRUE]
      ELSE CASE opcode % 4 = 3 ->
                  IF carry THEN [s EXCEPT !.next_address = byte_opcode] ELSE s
             [] opcode % 4 = 1 ->
                  [s EXCEPT !.saved_address = s.next_address, !.next_address = byte_opcode]
             [] opcode % 4 = 2 ->
                  ( CASE (opcode \div 4) % 8 = 0 -> u14_new(s, 2^(s.pointer))
                      [] (opcode \div 4) % 8 = 4 ->
                           IF s.pointer = 15
                             THEN (IF s.build = "debug" THEN [s EXCEPT !.aborted = TRUE]
                                   ELSE u14_new(s, 0))
                             ELSE u14_new(s, 2^(s.pointer + 1) - 1)
                      [] OTHER -> s )
             [] OTHER -> HP_CnT_control(s, byte_opcode)

\* a status instruction: class 00, low nibble of the byte opcode 0001 (set),
\* 0101 (test) or 1001 (clear), the flag index in its high nibble
StatusOpcode(low, value) == (value * 16 + low) * 4

IsStatusOpcode(opcode) == opcode % 4 = 0 /\ (opcode \div 4) % 16 \in {1, 5, 9}

\* flag indices offered: the first and the last flag, one between, and indices
\* past the last flag
StatusIndices == {0, 5, 11, 12, 13, 15}

\* opcodes offered: the status instructions, CLEAR STATUSES, NOP, P = 3, P++,
\* JMP 0o100 and CALL 0o100
CnTOpcodes ==
  {StatusOpcode(low, value) : low \in {1, 5, 9}, value \in StatusIndices}
    \cup {52, 0, 204, 60, 259, 257}

\* cycles of a run
MaxCnTCycles == 3

InitCnT ==
  \E build \in {"debug", "release"} :
    cnt = [cycles |-> 0, last |-> [opcode |-> 0, status |-> <<>>]] @@ HP_CnT_new(build)

\* a call of HP_CnT::run_cycle, the carry as the A&R chip gives it
CnT_RunCycle ==
  /\ ~cnt.aborted /\ cnt.cycles < MaxCnTCycles
  /\ \E opcode \in CnTOpcodes, carry \in BOOLEAN :
       cnt' = [cycles |-> cnt.cycles + 1,
               last |-> [opcode |-> opcode, status |-> cnt.status]]
              @@ HP_CnT_run_cycle(cnt, opcode, carry)
  /\ UNCHANGED <<arith, vars4004, alu, tms, tmsenv, f8, i8080, sh64, pulsed, hprom, indexer, board>>

InitOnCnT ==
  /\ InitCnT /\ IdleArith /\ Idle4004 /\ IdleAlu /\ IdleTms /\ IdleF8 /\ Idle8080
  /\ sh64 = Unbuilt /\ pulsed = Unbuilt /\ hprom = Unbuilt /\ indexer = Unbuilt
  /\ board = Unbuilt

NextCnT == CnT_RunCycle

SpecCnT == InitOnCnT /\ [][NextCnT]_vars

\* the last cycle ran a status instruction on a flag index past the last flag
StatusPastEnd ==
  /\ cnt.cycles > 0 /\ IsStatusOpcode(cnt.last.opcode)
  /\ cnt.last.opcode \div 64 >= StatusFlags

\* C20: a set, clear or test status instruction whose flag index is 12..15 does
\* not abort and leaves the 12 status flags as they were.
C20_SoftStatus ==
  StatusPastEnd => ~cnt.aborted /\ cnt.status = cnt.last.status

\* a status instruction on a flag that exists returns: set leaves the flag
\* true, clear leaves it false, test changes no flag
C20_StatusInRange ==
  (cnt.cycles > 0 /\ IsStatusOpcode(cnt.last.opcode) /\ ~StatusPastEnd) =>
    LET value == cnt.last.opcode \div 64
        low == (cnt.last.opcode \div 4) % 16
    IN  /\ ~cnt.aborted \/ (cnt.build = "debug" /\ cnt.next_address = 255)
        /\ ~cnt.aborted =>
             cnt.status = CASE low = 1 -> [cnt.last.status EXCEPT ![value] = TRUE]
                            [] low = 9 -> [cnt.last.status EXCEPT ![value] = FALSE]
                            [] OTHER -> cnt.last.status

(***************************************************************************)
(* The MCS-4 evaluation-kit scenario, src/tests/mcs4.rs                    *)
(***************************************************************************)

\* the 4001-0009 ROM image of the test, 256 bytes (resize to 0x100 adds none)
Mcs4Binary ==
  << 226, 207, 42, 65, 80, 222, 80, 229, 48, 254, 80, 238, 80, 229, 80, 238,
     80, 229, 42, 66, 95, 255, 87, 26, 72, 36, 95, 255, 83, 32, 76, 24,
     95, 255, 79, 255, 34, 203, 240, 43, 225, 33, 224, 242, 113, 41, 228, 242,
     229, 242, 230, 242, 231, 96, 114, 41, 250, 80, 247, 115, 57, 37, 250, 245,
     225, 26, 71, 28, 79, 25, 80, 18, 80, 20, 82, 17, 67, 64, 69, 240,
     64, 63, 44, 102, 46, 89, 32, 0, 61, 33, 132, 133, 224, 246, 116, 89,
     117, 89, 80, 222, 64, 117, 80, 222, 33, 148, 149, 224, 240, 116, 104, 117,
     104, 240, 43, 225, 63, 250, 104, 168, 224, 185, 169, 226, 251, 224, 116, 117,
     240, 248, 224, 252, 224, 116, 129, 240, 251, 224, 242, 116, 136, 223, 224, 247,
     224, 28, 141, 240, 43, 225, 223, 249, 224, 250, 249, 224, 243, 246, 224, 116,
     156, 36, 192, 33, 233, 113, 163, 236, 237, 238, 239, 96, 116, 163, 32, 32,
     34, 48, 33, 232, 97, 35, 232, 224, 115, 178, 32, 0, 32, 16, 240, 43,
     225, 33, 235, 97, 35, 235, 224, 115, 193, 43, 236, 20, 215, 216, 33, 225,
     240, 43, 228, 25, 211, 64, 32, 242, 228, 210, 33, 225, 64, 32, 43, 171,
     241, 225, 245, 187, 192, 33, 35, 37, 39, 41, 43, 45, 47, 192, 50, 52,
     54, 56, 58, 60, 62, 48, 192, 164, 245, 253, 180, 234, 192, 0, 255, 0 >>

\* I4004IO::read_rom: the one 4001 answers for every chip index
Mcs4_read_rom(address) == Mcs4Binary[(address % 256) + 1]

\* I4002::new
I4002_new ==
  [characters |-> [r \in 0..3 |-> [c \in 0..15 |-> 0]],
   status |-> [r \in 0..3 |-> [k \in 0..3 |-> 0]],
   ports |-> 0]

\* convert_ram_index: the bank from the command control register, the chip
\* from the designated index
convert_ram_index(command_control, designated_index) ==
  LET bank == CASE command_control = 0 -> 0 [] command_control = 1 -> 1
                [] command_control = 2 -> 2 [] command_control = 4 -> 3
                [] OTHER -> 0
  IN  BitOr(designated_index \div 64, bank * 4)

\* RAM chips of the test
Mcs4RamChips == 2

\* I4004IO: what an IO read of the instruction answers (0 from a chip that is
\* not there)
Mcs4_io_read(s, opcode, b) ==
  LET high_addr == convert_ram_index(s.command_control, s.designated_index)
      reg == (s.designated_index \div 16) % 4
      char == s.designated_index % 16
  IN  CASE opcode = 234 -> b.rom_ports
        [] high_addr >= Mcs4RamChips -> 0
        [] opcode \in {232, 233, 235} -> b.ram[high_addr].characters[reg][char]
        [] opcode \in 236..239 -> b.ram[high_addr].status[reg][opcode % 4]
        [] OTHER -> 0

\* I4004IO: the board after an IO write of the instruction
Mcs4_io_write(s, opcode, b) ==
  LET high_addr == convert_ram_index(s.command_control, s.designated_index)
      reg == (s.designated_index \div 16) % 4
      char == s.designated_index % 16
  IN  CASE opcode = 226 -> [b EXCEPT !.rom_ports = s.acc]
        [] high_addr >= Mcs4RamChips -> b
        [] opcode = 224 -> [b EXCEPT !.ram[high_addr].characters[reg][char] = s.acc]
        [] opcode = 225 -> [b EXCEPT !.ram[high_addr].ports = s.acc]
        [] opcode \in 228..231 ->
             [b EXCEPT !.ram[high_addr].status[reg][opcode % 4] = s.acc]
        [] OTHER -> b

\* the byte the instruction reads after its opcode: its second byte, or for
\* FIN the byte at R0R1 of the page the program counter is in
Mcs4_byte2(s, opcode) ==
  IF opcode \div 16 = 3 /\ opcode % 2 = 0
    THEN Mcs4_read_rom((((s.pc + 1) % 4096) \div 256) * 256
                       + BitOr(s.regs[1], s.regs[0] * 16))
    ELSE Mcs4_read_rom((s.pc + 1) % 4096)

\* I4002IO::port0 after the RAM chips' turn: bit 0 of the ports of the chip
\* wired to the test pin
Mcs4_test_pin(b) == b.ram[b.driver].ports % 2 = 1

\* cycles the test allows
Mcs4TestCycles == 500

\* the success marker of the test
Mcs4Success == i4004.pc % 256 = 80

InitMcs4 ==
  /\ engine = "I4004" /\ i4004 = I4004_new /\ cpu = CPU_new
  /\ bus = NoBus /\ trail = [instrs |-> 0] @@ NoTrail
  /\ \E driver \in 0..(Mcs4RamChips - 1) :
       board = [built |-> TRUE, ram |-> [n \in 0..(Mcs4RamChips - 1) |-> I4002_new],
                rom_ports |-> 0, driver |-> driver, cycles |-> 0, returned |-> FALSE]

\* one pass of the test's loop: the 4004 runs an instruction, then the RAM
\* chips hand bit 0 of their ports to the test pin, then the test looks at pc
Mcs4_Cycle ==
  /\ board.built /\ ~board.returned /\ ~i4004.aborted
  /\ board.cycles < Mcs4TestCycles
  /\ LET opcode == Mcs4_read_rom(i4004.pc)
         n == I4004_run_cycle(i4004, opcode, Mcs4_byte2(i4004, opcode),
                              Mcs4_io_read(i4004, opcode, board))
         b == Mcs4_io_write(i4004, opcode, board)
     IN  /\ i4004' = IF n.aborted THEN n ELSE [n EXCEPT !.test = Mcs4_test_pin(b)]
         /\ board' = [b EXCEPT !.cycles = @ + 1,
                                 !.returned = ~n.aborted /\ n.pc % 256 = 80]
  /\ UNCHANGED <<arith, engine, cpu, bus, trail, alu, tms, tmsenv, f8, i8080,
                 sh64, pulsed, hprom, indexer, cnt>>

InitOnMcs4 ==
  /\ InitMcs4 /\ IdleArith /\ IdleAlu /\ IdleTms /\ IdleF8 /\ Idle8080
  /\ sh64 = Unbuilt /\ pulsed = Unbuilt /\ hprom = Unbuilt
  /\ indexer = Unbuilt /\ cnt = Unbuilt

NextMcs4 == Mcs4_Cycle

\* the test's loop keeps running until it returns or gives up
SpecMcs4 == InitOnMcs4 /\ [][NextMcs4]_vars /\ WF_vars(NextMcs4)

\* C21: from reset on the evaluation-kit ROM the single-call I4004 never aborts
\* and the test returns, with the low byte of the program counter 0x50, within
\* the 500 cycles it allows.
C21_Mcs4Conformance ==
  /\ [](~i4004.aborted)
  /\ <>(board.returned /\ Mcs4Success /\ board.cycles <= Mcs4TestCycles)

\* the test has returned on the marker after more than 400 cycles
C21_Witness ==
  board.built /\ board.returned /\ Mcs4Success /\ board.cycles > 400

(***************************************************************************)
(* One instruction on both 4004 engines                                    *)
(***************************************************************************)

\* addresses an instruction is placed at: the start and the end of a page, of
\* the first, of an inner and of the last page
AgreeAddresses == {0, 254, 255, 767, 4094, 4095}

\* register files of the common state: zero, R0R1 = 0x5A with a mixed rest,
\* every register 15
AgreeRegs ==
  { ZeroRegs,
    [i \in 0..15 |-> CASE i = 0 -> 5 [] i = 1 -> 10 [] OTHER -> (i * 7) % 16],
    [i \in 0..15 |-> 15] }

\* call stacks of the common state, as <<slots, stack index, pushes pending>>:
\* empty, one and five pushes made, 255 pushes made
AgreeStacks ==
  { <<ZeroStack, 0, 0>>,
    <<[ZeroStack EXCEPT ![0] = 600], 1, 1>>,
    <<[n \in 0..3 |-> 100 * (n + 1)], 1, 5>>,
    <<[n \in 0..3 |-> 100 * (n + 1)], 3, 255>> }

\* the legal opcodes but the I/O group, SRC and DCL
AgreeOpcodes ==
  { op \in 0..254 :
      /\ op = 0 \/ op >= 16
      /\ op \div 16 # 14
      /\ ~(op \div 16 = 2 /\ op % 2 = 1)
      /\ op # 253 }

\* bytes the ROM holds where the instruction looks next
AgreeOperands == {0, 90, 255}

\* the address I4004::run_cycle reads after the opcode: FIN reads R0R1 of the
\* page the moved program counter is in, the others the next byte
I4004_second_address(s, opcode) ==
  LET moved == (s.pc + 1) % 4096
  IN  IF opcode \div 16 = 3 /\ opcode % 2 = 0
        THEN (moved \div 256) * 256 + BitOr(s.regs[1], s.regs[0] * 16)
        ELSE moved

\* the split-phase engine run through one instruction: set_opcode and
\* run_cycle, and once more with the byte at get_addr if a phase is pending
CPU_instruction(s, opcode, byte2, outcome) ==
  LET c1 == CPU_run_cycle(set_opcode(s, opcode), 0, outcome)
  IN  IF c1.aborted \/ c1.continue_from = "StartOver" THEN c1
      ELSE CPU_run_cycle(set_opcode(c1, byte2), 0, outcome)

InitAgree ==
  /\ engine = "both"
  /\ bus = NoBus /\ trail = [instrs |-> 0] @@ NoTrail
  /\ \E pc \in AgreeAddresses, acc \in {0, 9, 15}, carry \in BOOLEAN,
        test \in BOOLEAN, regs \in AgreeRegs, st \in AgreeStacks :
       /\ i4004 = [I4004_new EXCEPT !.pc = pc, !.acc = acc, !.carry = carry,
                                    !.test = test, !.regs = regs, !.stack = st[1],
                                    !.effective_address = st[2], !.push_count = st[3]]
       /\ cpu = [CPU_new EXCEPT !.pc = pc, !.acc = acc, !.carry = carry,
                                !.test = test, !.regs = regs, !.stack = st[1],
                                !.effective_address = st[2], !.push_count = st[3]]

\* the same instruction on both engines, over any ROM: the bytes the engines
\* read after the opcode are the same byte when they read the same address
Agree_Instruction ==
  /\ engine = "both" /\ bus.call = "none"
  /\ \E opcode \in AgreeOpcodes, b1 \in AgreeOperands, b2 \in AgreeOperands :
       LET pending == CPU_run_cycle(set_opcode(cpu, opcode), 0, "counted")
       IN  /\ (pending.continue_from = "StartOver") => (b1 = 0 /\ b2 = 0)
           /\ (I4004_second_address(i4004, opcode) = get_addr(pending)) => (b1 = b2)
           /\ \E outcome \in PushCountOutcomes(cpu) :
                /\ i4004' = I4004_run_cycle(i4004, opcode, b1, 0)
                /\ cpu' = CPU_instruction(cpu, opcode, b2, outcome)
           /\ bus' = [NoBus EXCEPT !.call = "run_cycle", !.fetched = opcode,
                                   !.operand = b1]
           /\ board' = [built |-> TRUE, address |-> i4004.pc]
  /\ UNCHANGED <<arith, engine, trail, alu, tms, tmsenv, f8, i8080,
                 sh64, pulsed, hprom, indexer, cnt>>

InitOnAgree == InitAgree /\ IdleArith /\ IdleAlu /\ IdleTms /\ IdlePeripherals

NextAgree == Agree_Instruction

SpecAgree == InitOnAgree /\ [][NextAgree]_vars

\* the fields C23 compares
SameOutcome ==
  /\ i4004.pc = cpu.pc /\ i4004.acc = cpu.acc /\ i4004.carry = cpu.carry
  /\ i4004.regs = cpu.regs /\ i4004.stack = cpu.stack
  /\ i4004.effective_address = cpu.effective_address
  /\ i4004.push_count = cpu.push_count
  /\ ~i4004.aborted /\ ~cpu.aborted

\* C23: one instruction, of any legal opcode but the I/O group, SRC and DCL,
\* at any address and over any ROM, leaves both 4004 engines with the same
\* program counter, accumulator, carry, index registers and call stack.
C23_EnginesAgree ==
  (engine = "both" /\ bus.call = "run_cycle") => SameOutcome

\* the same, but for FIN and JIN in the last byte of a page and for a JMS
\* that is the 256th push pending
C23_EnginesAgreeElsewhere ==
  ( /\ engine = "both" /\ bus.call = "run_cycle"
    /\ ~(bus.fetched \div 16 = 3 /\ board.address % 256 = 255)
    /\ ~(bus.fetched \div 16 = 5 /\ i4004.push_count = 256) ) => SameOutcome

(***************************************************************************)
(* Long runs of JMS on the split-phase engine                              *)
(***************************************************************************)

\* JMS instructions of a run
MaxPushes == 256

\* JMS into page 0, to 0x000 or 0x002
PushOpcodes == {80}

PushOperands == {0, 2}

NextPushes ==
  \/ /\ MayRun(MaxPushes)
     /\ CPU_SetOpcode(IF cpu.continue_from = "StartOver" THEN PushOpcodes
                      ELSE PushOperands)
  \/ /\ MayRun(MaxPushes) /\ bus.call = "set_opcode"
     /\ CPU_RunCycle({0})

InitOnPushes == InitOn4004 /\ engine = "CPU"

SpecPushes == InitOnPushes /\ [][NextPushes]_vars

\* the second phase of a JMS
CallFarStep == engine = "CPU" /\ bus'.call = "run_cycle" /\ cpu.continue_from = "CallFar"

\* what a JMS does to the stack: the slot at the stack index receives the
\* return address, the index moves on modulo 4, one more push is pending
Pushed ==
  /\ ~cpu'.aborted
  /\ cpu'.stack = [cpu.stack EXCEPT ![cpu.effective_address] = (cpu.pc + 1) % 4096]
  /\ cpu'.effective_address = (cpu.effective_address + 1) % 4
  /\ cpu'.push_count = cpu.push_count + 1

\* C24: every JMS of a run of JMS alone, however long, completes without
\* aborting, overwrites the oldest stack slot and counts one more push pending.
C24_UnboundedPushCount == [][CallFarStep => Pushed]_vars

\* the same while fewer than 255 pushes are pending
C24_PushCountBelow255 == [][(CallFarStep /\ cpu.push_count < 255) => Pushed]_vars

(***************************************************************************)
(* The HP C&T and A&R chips in step, src/src/hp_classic/mod.rs             *)
(***************************************************************************)

\* HP_AnR::new: the registers zero, no carry pending
HP_AnR_new ==
  [a |-> ZeroDigits(HP_Digits), b |-> ZeroDigits(HP_Digits), c |-> ZeroDigits(HP_Digits),
   d |-> ZeroDigits(HP_Digits), e |-> ZeroDigits(HP_Digits), f |-> ZeroDigits(HP_Digits),
   m |-> ZeroDigits(HP_Digits), next_carry |-> TRUE, display_on |-> FALSE,
   aborted |-> FALSE]

\* a LOAD CONSTANT that writes the digit whatever the word select says
load_constant_everywhere(c, word_select, n, turns) == [i \in 1..Len(c) |-> n]

RECURSIVE load_constant(_, _, _, _)
\* type_5, LOAD CONSTANT: the turns of the loop that are left
load_constant(c, word_select, n, turns) ==
  IF turns = 0 THEN c
  ELSE LET ws == WordSelect_shift(word_select, "Right")
           digit == IF ws[1] THEN n ELSE read_nibble(c, "Right")
       IN  load_constant(shift_with_nibble(c, "Right", digit), ws[2], n, turns - 1)

\* type_5: data entry and display
type_5(chip, instruction, word_select, ram_data) ==
  LET v == instruction \div 4
  IN  CASE instruction % 4 = 0 -> chip
        [] instruction % 4 = 1 ->
             [chip EXCEPT !.c = load_constant(chip.c, word_select, v, HP_Digits)]
        [] v = 0 -> [chip EXCEPT !.display_on = ~chip.display_on]
        [] v = 2 -> [chip EXCEPT !.c = chip.m, !.m = chip.c]
        [] v = 4 -> [chip EXCEPT !.d = chip.c, !.e = chip.d, !.f = chip.e]
        [] v = 6 -> [chip EXCEPT !.e = chip.f, !.d = chip.e, !.a = chip.d]
        [] v = 8 -> [chip EXCEPT !.display_on = FALSE]
        [] v = 10 -> [chip EXCEPT !.c = chip.m]
        [] v = 11 -> [chip EXCEPT !.c = ram_data]
        [] v = 12 -> [chip EXCEPT !.f = chip.c, !.e = chip.f, !.d = chip.e, !.c = chip.d]
        [] v = 14 -> HP_AnR_new
        [] OTHER -> [chip EXCEPT !.aborted = TRUE]

\* HP_AnR::run_cycle: type 2 and type 5 opcodes, nothing for the others
HP_AnR_run_cycle(chip, opcode, word_select_data, ram_data) ==
  LET c0 == [chip EXCEPT !.next_carry = TRUE]
  IN  CASE opcode % 4 = 2 ->
             LET r == HP_run_cycle(chip, opcode, word_select_data)
             IN  [c0 EXCEPT !.a = r.a, !.b = r.b, !.c = r.c,
                            !.next_carry = r.next_carry, !.aborted = r.aborted]
        [] opcode % 16 = 8 -> type_5(c0, opcode \div 16, word_select_data, ram_data)
        [] OTHER -> c0

\* Board::run_cycle after the ROMs have answered: the C&T runs on the carry
\* the A&R left, then the A&R on the word select of ROM and C&T together;
\* the result is <<C&T, A&R>>
Pair_run_cycle(ct, anr, opcode) ==
  LET ct1 == HP_CnT_run_cycle(ct, opcode, anr.next_carry)
      word_select_data == BitOr(WordSelectOf(opcode), ct1.out)
  IN  IF ct1.aborted THEN <<ct1, anr>>
      ELSE <<ct1, HP_AnR_run_cycle(anr, opcode, word_select_data,
                                   ZeroDigits(HP_Digits))>>

\* opcodes offered to the pair: NOP, S0 = true, ? S0 != true, ? P != 0, P = 3,
\* A-- and A++ on the entire word, A-- at the pointer, JMP 0o100
PairOpcodes == {0, 4, 20, 44, 204, 878, 1006, 866, 259}

\* cycles of a run
MaxPairCycles == 3

\* a test of the C&T: ? S != true, ? P != n
IsCnTTest(opcode) == opcode % 4 = 0 /\ (opcode \div 4) % 16 \in {5, 11}

InitPair ==
  /\ InitCnT
  /\ board = [built |-> TRUE, anr |-> HP_AnR_new, cycles |-> 0,
              last |-> [opcode |-> 0, signalled |-> FALSE]]

\* Board::run_cycle, the ROMs answering with any of the opcodes offered;
\* signalled: the cycle was a type 2 operation that ended with next_carry false
\* or a C&T test that set the C&T carry false
Pair_RunCycle ==
  /\ board.built /\ ~cnt.aborted /\ ~board.anr.aborted
  /\ board.cycles < MaxPairCycles
  /\ \E opcode \in PairOpcodes :
       LET r == Pair_run_cycle(cnt, board.anr, opcode)
       IN  /\ cnt' = [cycles |-> cnt.cycles + 1,
                     last |-> [opcode |-> opcode, status |-> cnt.status]] @@ r[1]
           /\ board' = [board EXCEPT
                          !.anr = r[2], !.cycles = @ + 1,
                          !.last = [opcode |-> opcode,
                                    signalled |->
                                      \/ opcode % 4 = 2 /\ ~r[2].next_carry
                                      \/ IsCnTTest(opcode) /\ ~r[1].carry]]
  /\ UNCHANGED <<arith, vars4004, alu, tms, tmsenv, f8, i8080, sh64, pulsed, hprom, indexer>>

InitOnPair ==
  /\ InitPair /\ IdleArith /\ Idle4004 /\ IdleAlu /\ IdleTms /\ IdleF8 /\ Idle8080
  /\ sh64 = Unbuilt /\ pulsed = Unbuilt /\ hprom = Unbuilt /\ indexer = Unbuilt

NextPair == Pair_RunCycle

SpecPair == InitOnPair /\ [][NextPair]_vars

\* a cycle that runs a conditional jump and does not take it: the next address
\* is not the jump's target
JumpNotTaken ==
  /\ board.built /\ board'.cycles = board.cycles + 1
  /\ board'.last.opcode % 4 = 3
  /\ cnt'.next_address # board'.last.opcode \div 4

\* C25: a conditional jump is not taken only if the cycle just before it
\* signalled a carry (a type 2 operation ending with next_carry false, or a
\* status or pointer test setting the C&T carry false).
C25_CarryLifetime ==
  [][JumpNotTaken => (board.cycles > 0 /\ board.last.signalled)]_vars

\* the same for every cycle but the first after construction, and there the
\* jump is never taken
C25_CarryLifetimeAfterFirst ==
  [][JumpNotTaken => (board.cycles = 0 \/ board.last.signalled)]_vars

\* ---- delayed and immediate ROM select over consecutive fetches ----

IsRomSelect(opcode) == opcode % 128 = 16

IsDelayedSelect(opcode) == opcode % 128 = 116

\* the chips with the number an opcode names
ChipsNamed(opcode) == {w \in DOMAIN hprom.chips : w = opcode \div 128}

\* the chips that supply fetch n + 1 when the opcode of fetch n selects none:
\* those of fetch n, or those a delayed select before fetch n named
SourceWithoutSelect(n) ==
  IF n > 1 /\ IsDelayedSelect(hprom.fetches[n - 1].opcode)
    THEN ChipsNamed(hprom.fetches[n - 1].opcode)
    ELSE hprom.fetches[n].enabled

\* fetch n is supplied by the chips S alone: every other chip put out zero,
\* and the opcode on the bus is that of the chip in S (zero if S is empty)
SuppliedBy(n, S) ==
  LET f == hprom.fetches[n]
  IN  /\ f.enabled = S
      /\ \A w \in DOMAIN f.out : w \notin S =>
           f.out[w] = [opcode |-> 0, word_select |-> 0]
      /\ \A w \in S : f.opcode = f.out[w].opcode
      /\ S = {} => f.opcode = 0

\* the fetch after a delayed select is supplied as if nothing was selected
DelayedSelectNextFetch ==
  \A n \in 1..Len(hprom.fetches) :
    (IsDelayedSelect(hprom.fetches[n].opcode) /\ n + 1 <= Len(hprom.fetches))
      => SuppliedBy(n + 1, SourceWithoutSelect(n))

\* the fetch after a ROM SELECT k is supplied by chip k
RomSelectNextFetch ==
  \A n \in 1..Len(hprom.fetches) :
    (IsRomSelect(hprom.fetches[n].opcode) /\ n + 1 <= Len(hprom.fetches))
      => SuppliedBy(n + 1, ChipsNamed(hprom.fetches[n].opcode))

\* C26: after a cycle that decodes DELAYED SELECT ROM k, the next fetch is
\* still supplied by the ROM enabled before, and the fetch after that by ROM
\* k (if such a chip exists) while every other chip puts out zero; after a
\* ROM SELECT k the very next fetch is supplied by ROM k
C26_DelayedSelect ==
  hprom.built =>
    /\ DelayedSelectNextFetch
    /\ RomSelectNextFetch
    /\ \A n \in 1..Len(hprom.fetches) :
         (IsDelayedSelect(hprom.fetches[n].opcode) /\ n + 2 <= Len(hprom.fetches))
           => SuppliedBy(n + 2, ChipsNamed(hprom.fetches[n].opcode))

\* C26, amended: as above, but the second fetch after DELAYED SELECT ROM k is
\* supplied by ROM k only if the opcode fetched in between is not a ROM
\* SELECT; if it is ROM SELECT j, that fetch is supplied by ROM j
C26_DelayedSelectUnlessSelected ==
  hprom.built =>
    /\ DelayedSelectNextFetch
    /\ RomSelectNextFetch
    /\ \A n \in 1..Len(hprom.fetches) :
         (IsDelayedSelect(hprom.fetches[n].opcode) /\ n + 2 <= Len(hprom.fetches))
           => SuppliedBy(n + 2,
                         IF IsRomSelect(hprom.fetches[n + 1].opcode)
                           THEN ChipsNamed(hprom.fetches[n + 1].opcode)
                           ELSE ChipsNamed(hprom.fetches[n].opcode))

\* ROM 0 holds DELAYED SELECT ROM 1, then a type 2 instruction, and the third
\* fetch is a nonzero opcode of ROM 1
C26_Witness ==
  /\ hprom.built /\ Len(hprom.fetches) = 3
  /\ hprom.fetches[1].opcode = 128 + 116 /\ hprom.fetches[1].enabled = {0}
  /\ hprom.fetches[2].opcode = 14 /\ hprom.fetches[2].enabled = {0}
  /\ hprom.fetches[3].enabled = {1} /\ hprom.fetches[3].opcode = 330
  /\ DOMAIN hprom.chips = {0, 1, 2}

\* ---- LOAD CONSTANT on the C&T and A&R pair ----

\* opcodes offered: NOP, LOAD CONSTANT 0, 7 and 15, P = 13, P = 14, and
\* A = C and B = A on the entire word
LoadOpcodes == {0, 24, 472, 984, 844, 908, 398, 302}

\* cycles of a run
MaxLoadCycles == 4

\* the C&T byte is 0110 in its low nibble, the constant in its high nibble
IsLoadConstant(opcode) == opcode % 64 = 24

\* Board::run_cycle, the ROMs answering with any of the opcodes offered; last
\* holds the opcode, and the pointer and the A&R chip as they were before it
Load_RunCycle ==
  /\ board.built /\ ~cnt.aborted /\ ~board.anr.aborted
  /\ board.cycles < MaxLoadCycles
  /\ \E opcode \in LoadOpcodes :
       LET r == Pair_run_cycle(cnt, board.anr, opcode)
       IN  /\ cnt' = [cycles |-> cnt.cycles + 1,
                     last |-> [opcode |-> opcode, status |-> cnt.status]] @@ r[1]
           /\ board' = [board EXCEPT
                          !.anr = r[2], !.cycles = @ + 1,
                          !.last = [opcode |-> opcode, pointer |-> cnt.pointer,
                                    anr |-> board.anr]]
  /\ UNCHANGED <<arith, vars4004, alu, tms, tmsenv, f8, i8080, sh64, pulsed, hprom, indexer>>

NextLoad == Load_RunCycle

SpecLoad == InitOnPair /\ [][NextLoad]_vars

\* C27: LOAD CONSTANT n with the pointer at p: if p <= 13, digit p of C
\* becomes n and every other digit of A, B and C is unchanged; if p is 14 or
\* 15, no digit of A, B and C changes and nothing aborts; either way the
\* pointer afterwards is (p - 1) mod 16.
C27_LoadConstant ==
  (board.built /\ board.cycles > 0 /\ IsLoadConstant(board.last.opcode)) =>
    LET p == board.last.pointer
        n == board.last.opcode \div 64
        x == board.last.anr
        y == board.anr
    IN  /\ ~cnt.aborted /\ ~y.aborted
        /\ cnt.pointer = (p + 15) % 16
        /\ y.a = x.a /\ y.b = x.b
        /\ y.c = IF p <= 13 THEN [x.c EXCEPT ![p + 1] = n] ELSE x.c

\* LOAD CONSTANT 7 at pointer 12 over a C holding 15 in digit 13, with A
\* holding that digit too
C27_Witness ==
  /\ board.built /\ board.cycles = 4 /\ board.last.opcode = 472
  /\ board.last.pointer = 12
  /\ board.last.anr.c[14] = 15 /\ board.last.anr.a[14] = 15
  /\ board.anr.c[13] = 7 /\ board.anr.c[14] = 15 /\ board.anr.a[13] = 0
  /\ cnt.pointer = 11

\* LOAD CONSTANT with the pointer at 14 and at 15 has run
C27_WitnessPastEnd ==
  /\ board.built /\ board.cycles = 3 /\ IsLoadConstant(board.last.opcode)
  /\ board.last.pointer = 14 /\ cnt.pointer = 13 /\ ~cnt.aborted
  /\ cnt.last.opcode = 984

\* ---- multi-digit BCD addition on the HP A&R ----

\* BCD registers offered: the low k digits x, the others y
BcdSamples ==
  { [i \in 1..HP_Digits |-> IF i <= k THEN x ELSE y] :
      x \in {0, 1, 5, 9}, y \in {0, 4, 5, 9}, k \in {1, 7, 13} }

\* the opcode of 'A = A + C' on the entire word
AddCToA == 30 * 32 + 14

\* HP_AnR::run_cycle on 'A = A + C' with the word select the ROM puts out for
\* it, over BCD contents of A and C and any of two contents of B
HP_AddCycle ==
  /\ alu = NoCycle
  /\ \E a \in BcdSamples, c \in BcdSamples, next_carry \in BOOLEAN,
        b \in {[i \in 1..HP_Digits |-> (i * 7) % 16], ZeroDigits(HP_Digits)} :
       LET chip == [a |-> a, b |-> b, c |-> c, next_carry |-> next_carry,
                    aborted |-> FALSE]
       IN  alu' = [chip |-> "HP", code |-> AddCToA \div 32,
                   mask |-> WordSelectOf(AddCToA), before |-> chip,
                   after |-> HP_run_cycle(chip, AddCToA, WordSelectOf(AddCToA))]
  /\ UNCHANGED <<arith, engine, i4004, cpu, bus, trail, tms, tmsenv, peripherals>>

NextBcd == HP_AddCycle

SpecBcd == InitOnAlu /\ [][NextBcd]_vars

RECURSIVE DecimalValue(_, _, _)
\* the number whose decimal digits are data[from..to], data[from] the lowest
DecimalValue(data, from, to) ==
  IF from > to THEN 0
  ELSE data[from] + 10 * DecimalValue(data, from + 1, to)

\* the sum of two 14-digit numbers, as the low seven digits of the sum, its
\* next seven digits, and whether it reaches 10^14
DecimalSum(x, y) ==
  LET half == HP_Digits \div 2
      low == DecimalValue(x, 1, half) + DecimalValue(y, 1, half)
      high == DecimalValue(x, half + 1, HP_Digits)
                + DecimalValue(y, half + 1, HP_Digits) + low \div 10^half
  IN  [low |-> low % 10^half, high |-> high % 10^half, over |-> high >= 10^half]

\* C28: with an all-ones word select and A and C holding 14 BCD digits each,
\* 'A = A + C' leaves A = (A + C) mod 10^14, leaves B and C as they were, and
\* ends with next_carry false exactly when A + C >= 10^14.
C28_SerialCarry ==
  (alu.chip = "HP" /\ alu.code = 30 /\ alu.mask = 2^HP_Digits - 1
     /\ \A i \in 1..HP_Digits : alu.before.a[i] <= 9 /\ alu.before.c[i] <= 9) =>
    LET sum == DecimalSum(alu.before.a, alu.before.c)
        half == HP_Digits \div 2
    IN  /\ ~alu.after.aborted
        /\ DecimalValue(alu.after.a, 1, half) = sum.low
        /\ DecimalValue(alu.after.a, half + 1, HP_Digits) = sum.high
        /\ \A i \in 1..HP_Digits : alu.after.a[i] <= 9
        /\ alu.after.b = alu.before.b /\ alu.after.c = alu.before.c
        /\ alu.after.next_carry = ~sum.over

\* 59999999999999 + 55555555555551 = 10^14 + 15555555555550: the carry runs
\* through every digit and out of the word
C28_Witness ==
  /\ alu.chip = "HP" /\ alu.code = 30
  /\ alu.before.a = [i \in 1..HP_Digits |-> IF i <= 13 THEN 9 ELSE 5]
  /\ alu.before.c = [i \in 1..HP_Digits |-> IF i <= 1 THEN 1 ELSE 5]
  /\ alu.after.a = [i \in 1..HP_Digits |-> IF i = 1 THEN 0 ELSE IF i = 14 THEN 1 ELSE 5]
  /\ ~alu.after.next_carry /\ alu.before.next_carry

\* ---- shift micro-operations of the HP A&R ----

\* data << 4 within the register: digit i takes the old digit i - 1, zero
\* enters at digit 1 and the old top digit is lost
ShiftedLeft4(before, after) ==
  \A i \in 1..Len(before) : after[i] = IF i = 1 THEN 0 ELSE before[i - 1]

\* data >> 4: digit i takes the old digit i + 1, zero enters at the top and
\* the old digit 1 is lost
ShiftedRight4(before, after) ==
  \A i \in 1..Len(before) :
    after[i] = IF i = Len(before) THEN 0 ELSE before[i + 1]

\* C29: under an all-ones word select, operation 01000 leaves A = A << 4
\* truncated to the register, and operations 10110, 10100 and 10010 leave A, B
\* and C respectively equal to the old value >> 4; the two other registers are
\* unchanged and no carry is signalled (next_carry is true).
C29_Shifts ==
  (alu.chip = "HP" /\ alu.mask = 2^HP_Digits - 1 /\ alu.code \in {8, 18, 20, 22}) =>
    LET x == alu.before
        y == alu.after
    IN  /\ ~y.aborted /\ y.next_carry
        /\ alu.code = 8 => ShiftedLeft4(x.a, y.a) /\ y.b = x.b /\ y.c = x.c
        /\ alu.code = 22 => ShiftedRight4(x.a, y.a) /\ y.b = x.b /\ y.c = x.c
        /\ alu.code = 20 => ShiftedRight4(x.b, y.b) /\ y.a = x.a /\ y.c = x.c
        /\ alu.code = 18 => ShiftedRight4(x.c, y.c) /\ y.a = x.a /\ y.b = x.b

\* 'shift right B' over a B whose digits differ from their neighbours, with a
\* nonzero lowest digit to lose, after a cycle that had signalled a carry
C29_Witness ==
  /\ alu.chip = "HP" /\ alu.mask = 2^HP_Digits - 1 /\ alu.code = 20
  /\ alu.before.b[1] = 7 /\ alu.before.b[HP_Digits] # 0
  /\ alu.after.b[HP_Digits] = 0 /\ alu.after.b[1] = alu.before.b[2]
  /\ alu.after.b # alu.before.b
  /\ ~alu.before.next_carry /\ alu.after.next_carry

\* ---- the digit helpers of the arithmetic units, called alone ----

\* add and sub of hp_anr.rs on any two nibbles and carry
HP_DigitCall ==
  \E num1 \in Nibbles, num2 \in Nibbles, carry \in BOOLEAN, fn \in {"add", "sub"} :
    arith' = [fn |-> fn, unit |-> "HP", num1 |-> num1, num2 |-> num2,
              carry |-> carry, hex |-> FALSE,
              out |-> IF fn = "add" THEN HP_add(num1, num2, carry)
                      ELSE HP_sub(num1, num2, carry)]

\* add and sub of tms0800/alu.rs on any two nibbles, carry and base
TMS_DigitCall ==
  \E num1 \in Nibbles, num2 \in Nibbles, carry \in BOOLEAN, hex \in BOOLEAN,
     fn \in {"add", "sub"} :
    arith' = [fn |-> fn, unit |-> "TMS", num1 |-> num1, num2 |-> num2,
              carry |-> carry, hex |-> hex,
              out |-> IF fn = "add" THEN add(num1, num2, carry, hex)
                      ELSE sub(num1, num2, carry, hex)]

NextDigit ==
  \/ arith = NoCall /\ HP_DigitCall
       /\ UNCHANGED <<vars4004, alu, tms, tmsenv, peripherals>>
  \/ arith = NoCall /\ TMS_DigitCall
       /\ UNCHANGED <<vars4004, alu, tms, tmsenv, peripherals>>

SpecDigit == InitOnArith /\ [][NextDigit]_vars

\* a call of a digit helper has been made
DigitCalled == arith.fn \in {"add", "sub"}

\* C30: for all nibbles 0..15 and either carry-in, the digit add and subtract
\* helpers of both arithmetic units return a value in 0..15 with a carry-out
\* and never abort.
C30_DigitsTotal ==
  DigitCalled => arith.out.ok /\ arith.out.value \in Nibbles

\* the helpers return, with a value in 0..15, whenever the base is 16 or both
\* operands are decimal digits
C30_DigitsTotalOnDecimals ==
  (DigitCalled /\ (arith.hex \/ (arith.num1 <= 9 /\ arith.num2 <= 9))) =>
    arith.out.ok /\ arith.out.value \in Nibbles

\* the decimal helpers abort exactly when the sum is 26 or more or the
\* difference is below -10
C30_DigitsAbortWhen ==
  (DigitCalled /\ ~arith.hex) =>
    LET k == IF arith.carry THEN 1 ELSE 0
    IN  ~arith.out.ok <=>
          IF arith.fn = "add" THEN arith.num1 + arith.num2 + k >= 26
          ELSE arith.num1 - arith.num2 - k < -10

\* ---- the width of a shift register ----

\* a step that may be shift_with_bit(Right, b)
ShiftedRightWith(b) ==
  /\ sh64.built /\ sh64'.shifts = sh64.shifts + 1
  /\ sh64'.data = Shifter64_shift_with_bit(sh64.data, "Right", b, NUM_BITS64)

\* C31: after any sequence of shift_with_bit and shift_with_nibble calls in
\* either direction the register's contents are below 2^NUM_BITS, and a bit
\* written with shift_with_bit(Right, b) is what read_bit(Left) returns
\* immediately afterwards.
C31_KeepsWidth ==
  [][ /\ sh64'.built => sh64'.data < 2^NUM_BITS64
      /\ \A b \in BOOLEAN :
           (ShiftedRightWith(b) /\ sh64.data < 2^NUM_BITS64) =>
             read_bit(sh64'.data, "Left", NUM_BITS64) = b ]_vars

\* the contents never reach beyond the one bit above the register
C31_WidthPlusOne ==
  sh64.built => sh64.data < 2^(NUM_BITS64 + 1)

\* contents of full width are only ever made by writing a bit going right
C31_WidthButRightBit ==
  [][ (sh64.built /\ sh64.data < 2^NUM_BITS64 /\ sh64'.data >= 2^NUM_BITS64)
        => ShiftedRightWith(TRUE) ]_vars

\* ---- the keyboard scan register D of the TMS0800 ----

\* words the ROM may hold here: SCAN under the first word select, and a jump
\* if no carry
ScanSamples == {1024 + 22 * 16, 3}

\* cycles of a run
MaxScanCycles == 12

\* TMS0800::run_cycle, the ROM holding any of the words above
TMS_ScanCycle ==
  /\ ~tms.aborted
  /\ tmsenv.cycles < MaxScanCycles
  /\ tms.pc < RomWords
  /\ \E opcode \in (IF tms.pc \in DOMAIN tmsenv.rom
                      THEN {tmsenv.rom[tms.pc]} ELSE ScanSamples) :
       /\ tms' = TMS0800_run_cycle(tms, opcode, WordSelectsSample,
                                   InstructionsSample, ConstantsSample)
       /\ tmsenv' = [rom |-> (tms.pc :> opcode) @@ tmsenv.rom,
                     cycles |-> tmsenv.cycles + 1, keyed |-> FALSE,
                     opcode |-> opcode, carry_in |-> tms.carry]
  /\ UNCHANGED <<arith, engine, i4004, cpu, bus, trail, alu, peripherals>>

\* the keyboard is written before the first cycle only
NextScan ==
  \/ TMS_ScanCycle
  \/ tmsenv.cycles = 0 /\ TMS_SetKeypress

SpecScan == InitOnTms /\ [][NextScan]_vars

\* C32: after any number of cycles D holds exactly one set bit within its low
\* 10 bits, moved by one position per cycle, and it is back at 0b1000000000
\* every 10 cycles.
C32_ScanRegister ==
  ~tms.aborted =>
    /\ tms.d \in {2^k : k \in 0..9}
    /\ tms.d = 2^(9 - (tmsenv.cycles % 10))

\* D holds one set bit that visits bits 9 down to 0 and then bit 10, and is
\* back at 0b1000000000 every 11 cycles
C32_ScanPeriodEleven ==
  ~tms.aborted => tms.d = 2^((20 - tmsenv.cycles) % 11)

\* ---- DAA of the 4004 engines ----

\* LDM 0..15, CLC, STC and DAA
DaaOpcodes == (208..223) \cup {241, 250, 251}

\* instructions of a run
MaxDaaInstrs == 3

NextDaa ==
  \/ /\ trail.instrs < MaxDaaInstrs
     /\ I4004_RunCycle(DaaOpcodes, {0}, {0})
  \/ /\ MayRun(MaxDaaInstrs)
     /\ CPU_SetOpcode(DaaOpcodes)
  \/ /\ MayRun(MaxDaaInstrs) /\ bus.call = "set_opcode"
     /\ CPU_RunCycle({0})

SpecDaa == InitOn4004 /\ [][NextDaa]_vars

\* a step in which an engine executes DAA
DaaStep ==
  /\ bus'.call = "run_cycle"
  /\ IF engine = "I4004" THEN bus'.fetched = 251
     ELSE cpu.opcode = 251 /\ cpu.continue_from = "StartOver"

\* C33: on both engines, a carry set before DAA is set after it; DAA adds 6
\* to the accumulator exactly when the accumulator exceeds 9 or the carry is
\* set, sets the carry when that sum exceeds 15, and otherwise leaves
\* accumulator and carry as they were.
C33_DaaKeepsCarry ==
  [][ DaaStep =>
        LET acc == Chip.acc
            carry == Chip.carry
            adjust == acc > 9 \/ carry
        IN  /\ ~Chip'.aborted
            /\ carry => Chip'.carry
            /\ Chip'.acc = IF adjust THEN (acc + 6) % 16 ELSE acc
            /\ Chip'.carry = (carry \/ (adjust /\ acc + 6 > 15)) ]_vars

\* LDM 2, STC, DAA on the split-phase engine: the sum 8 does not exceed 15 and
\* the carry is still set
C33_Witness ==
  /\ engine = "CPU" /\ bus.call = "run_cycle" /\ cpu.opcode = 251
  /\ cpu.continue_from = "StartOver" /\ trail.instrs = 3
  /\ cpu.acc = 8 /\ cpu.carry

(***************************************************************************)
(* Fairchild F3850, src/src/cpu/f3850.rs                                   *)
(***************************************************************************)

RECURSIVE BitXor(_, _)
\* operator ^ on unsigned integers
BitXor(x, y) ==
  IF x = 0 THEN y
  ELSE IF y = 0 THEN x
  ELSE (IF x % 2 # y % 2 THEN 1 ELSE 0) + 2 * BitXor(x \div 2, y \div 2)

\* a bit of the status register W: negative 0, carry 1, zero 2, overflow 3,
\* interrupt 4
FlagBit(raw, k) == (raw \div 2^k) % 2 = 1

WithFlag(raw, k, b) ==
  IF FlagBit(raw, k) = b THEN raw
  ELSE IF b THEN raw + 2^k ELSE raw - 2^k

\* the four flags an arithmetic or logic result sets
WithResultFlags(raw, negative, carry, zero, overflow) ==
  WithFlag(WithFlag(WithFlag(WithFlag(raw, 0, negative), 1, carry), 2, zero),
           3, overflow)

\* F3850::default
F3850_new ==
  [flags |-> 0, acc |-> 0, isar |-> 0, regs |-> [r \in 0..63 |-> 0],
   reset |-> FALSE, ports |-> [q \in 0..3 |-> 0], aborted |-> FALSE,
   accessed |-> <<>>]

\* an add that takes the overflow flag for the carry out of bit 7 alone
add_and_set_flags_carry8(s, num1, num2) ==
  LET r == overflowing_add(num1, num2)
  IN  <<[s EXCEPT !.flags = WithResultFlags(s.flags, r[1] >= 128, r[2],
                                            r[1] = 0, r[2])],
        r[1]>>

\* add_and_set_flags: the chip with its flags set, and the sum
add_and_set_flags(s, num1, num2) ==
  LET r == overflowing_add(num1, num2)
      carry8 == r[2]
      carry7 == overflowing_add((num1 * 2) % 256, (num2 * 2) % 256)[2]
  IN  <<[s EXCEPT !.flags = WithResultFlags(s.flags, r[1] >= 128, carry8,
                                            r[1] = 0, carry8 # carry7)],
        r[1]>>

\* add_bcd_and_set_flags without step 3: the binary sum is returned as it is
add_bcd_unadjusted(s, num) == add_and_set_flags(s, s.acc, num)

\* add_bcd_and_set_flags: the chip with its flags set, and the adjusted sum
add_bcd_and_set_flags(s, num) ==
  LET r == add_and_set_flags(s, s.acc, num)
      normal_add == r[2]
      intermediate_carry ==
        overflowing_add((s.acc * 16) % 256, (num * 16) % 256)[2]
      high == IF FlagBit(r[1].flags, 1) THEN normal_add \div 16
              ELSE ((normal_add \div 16) + 10) % 16
      low == IF intermediate_carry THEN normal_add % 16
             ELSE ((normal_add % 16) + 10) % 16
  IN  <<r[1], high * 16 + low>>

\* subtract_and_set_flags: num1 - acc as num1 + !acc + 1; the chip with its
\* flags set (the accumulator is not written)
subtract_and_set_flags(s, num1) ==
  LET num2 == 255 - s.acc
      first == overflowing_add(num1, num2)
      carry7_first == overflowing_add((num1 * 2) % 256, (num2 * 2) % 256)[2]
      extra == overflowing_add(first[1], 1)
      carry7_extra == overflowing_add((num1 * 2) % 256, 2)[2]
      carry8 == first[2] \/ extra[2]
      carry7 == carry7_first \/ carry7_extra
  IN  [s EXCEPT !.flags = WithResultFlags(s.flags, extra[1] >= 128, carry8,
                                          extra[1] = 0, carry8 # carry7)]

\* set_flags, after the accumulator is written
set_flags(s) ==
  [s EXCEPT !.flags = WithResultFlags(s.flags, s.acc >= 128, FALSE,
                                      s.acc = 0, FALSE)]

\* reg_or_isar stepping the whole of ISAR instead of its low three bits
reg_or_isar_carrying(s, reg) ==
  IF reg <= 11 THEN <<s, reg>>
  ELSE IF reg = 12 THEN <<s, s.isar>>
  ELSE IF reg \in {13, 14}
    THEN <<[s EXCEPT !.isar = IF reg = 13 THEN s.isar + 1 ELSE (s.isar + 255) % 256],
           s.isar>>
  ELSE <<[s EXCEPT !.aborted = TRUE], 0>>

\* reg_or_isar: the chip (selectors 13 and 14 step the low three bits of
\* ISAR) and the index into the scratchpad
reg_or_isar(s, reg) ==
  IF reg <= 11 THEN <<s, reg>>
  ELSE IF reg = 12 THEN <<s, s.isar>>
  ELSE IF reg \in {13, 14}
    THEN LET isar_low == s.isar % 8
             new_isar_low == IF reg = 13 THEN (isar_low + 1) % 8
                             ELSE (isar_low + 7) % 8
         IN  <<[s EXCEPT !.isar = (s.isar \div 8) * 8 + new_isar_low], s.isar>>
  ELSE <<[s EXCEPT !.aborted = TRUE], 0>>

\* self.regs[index]: an index past the scratchpad fails the bounds check
reg_read(s, index) == IF index \in DOMAIN s.regs THEN s.regs[index] ELSE 0

reg_write(s, index, value) ==
  IF index \in DOMAIN s.regs
    THEN [s EXCEPT !.regs[index] = value, !.accessed = Append(@, index)]
    ELSE [s EXCEPT !.aborted = TRUE, !.accessed = Append(@, index)]

reg_touch(s, index) ==
  IF index \in DOMAIN s.regs THEN [s EXCEPT !.accessed = Append(@, index)]
  ELSE [s EXCEPT !.aborted = TRUE, !.accessed = Append(@, index)]

\* input: the internal port or the board's answer, or-ed with the external port
F3850_input(s, port, answer) ==
  set_flags([s EXCEPT !.acc = IF port <= 3 THEN BitOr(s.ports[port], answer)
                                ELSE answer])

\* output: ports 0..3 are kept in the chip as well
F3850_output(s, port) ==
  IF port <= 3 THEN [s EXCEPT !.ports[port] = s.acc] ELSE s

\* `self.acc = f(..)` where f returns the chip with flags set and a value
AccFrom(r) == [r[1] EXCEPT !.acc = r[2]]

\* 0x30..0x5F: DS, LR Acc, r and LR r, Acc through reg_or_isar
F3850_scratchpad(s, opcode) ==
  LET sel == reg_or_isar(s, opcode % 16)
      t == sel[1]
      reg == sel[2]
  IN  IF t.aborted THEN t
      ELSE IF reg \notin DOMAIN t.regs THEN reg_touch(t, reg)
      ELSE IF opcode < 64
        THEN LET r == add_and_set_flags(t, t.regs[reg], 255)
             IN  reg_write(r[1], reg, r[2])
      ELSE IF opcode < 80 THEN reg_touch([t EXCEPT !.acc = t.regs[reg]], reg)
      ELSE reg_write(t, reg, t.acc)

\* 0xC0..0xFF: AS, ASD, XS and NS through reg_or_isar
F3850_register_arith(s, opcode) ==
  LET sel == reg_or_isar(s, opcode % 16)
      t == IF sel[1].aborted THEN sel[1] ELSE reg_touch(sel[1], sel[2])
      value == reg_read(t, sel[2])
  IN  IF t.aborted THEN t
      ELSE IF opcode < 208 THEN AccFrom(add_and_set_flags(t, t.acc, value))
      ELSE IF opcode < 224 THEN AccFrom(add_bcd_and_set_flags(t, value))
      ELSE IF opcode < 240 THEN set_flags([t EXCEPT !.acc = BitXor(t.acc, value)])
      ELSE set_flags([t EXCEPT !.acc = BitAnd(t.acc, value)])

\* 0x80..0x87 and 0x8F..0x9F: `relative_addr.abs()` of -128 overflows an i8,
\* which panics in a debug build; the jump itself is the board's
F3850_branch(s, relative_addr, build) ==
  IF relative_addr = 128 /\ build = "debug" THEN [s EXCEPT !.aborted = TRUE]
  ELSE s

\* F3850::run_cycle: x and y are what the board answers to the calls made
\* (next_code, peak_code, next_data, get_pc1, get_dc0, input), in order
F3850_run_cycle(s0, opcode, x, y, build) ==
  LET s == [s0 EXCEPT !.accessed = <<>>]
  IN  IF s.reset THEN [s EXCEPT !.reset = FALSE]
      ELSE CASE opcode <= 3 -> reg_touch([s EXCEPT !.acc = s.regs[opcode + 12]],
                                         opcode + 12)
        [] opcode \in 4..7 -> reg_write(s, opcode - 4 + 12, s.acc)
        [] opcode = 8 -> reg_write(reg_write(s, 12, x), 13, y)
        [] opcode = 10 -> [s EXCEPT !.acc = s.isar]
        [] opcode = 11 -> [s EXCEPT !.isar = s.acc % 64]
        [] opcode = 14 -> reg_write(reg_write(s, 14, x), 15, y)
        [] opcode = 17 -> reg_write(reg_write(s, 10, x), 11, y)
        [] opcode \in {9, 12, 13, 15, 16} -> s
        [] opcode = 18 -> set_flags([s EXCEPT !.acc = s.acc \div 2])
        [] opcode = 19 -> set_flags([s EXCEPT !.acc = (s.acc * 2) % 256])
        [] opcode = 20 -> set_flags([s EXCEPT !.acc = s.acc \div 16])
        [] opcode = 21 -> set_flags([s EXCEPT !.acc = (s.acc * 16) % 256])
        [] opcode = 22 -> [s EXCEPT !.acc = x]
        [] opcode = 23 -> s
        [] opcode = 24 -> set_flags([s EXCEPT !.acc = 255 - s.acc])
        [] opcode = 25 ->
             AccFrom(add_and_set_flags(s, s.acc, IF FlagBit(s.flags, 1) THEN 1 ELSE 0))
        [] opcode = 26 -> [s EXCEPT !.flags = WithFlag(s.flags, 4, FALSE)]
        [] opcode = 27 -> [s EXCEPT !.flags = WithFlag(s.flags, 4, TRUE)]
        [] opcode = 28 -> s
        [] opcode = 29 -> reg_touch([s EXCEPT !.flags = s.regs[9]], 9)
        [] opcode = 30 -> reg_write(s, 9, s.flags)
        [] opcode = 31 -> AccFrom(add_and_set_flags(s, s.acc, 1))
        [] opcode = 32 -> [s EXCEPT !.acc = x]
        [] opcode = 33 -> set_flags([s EXCEPT !.acc = BitAnd(s.acc, x)])
        [] opcode = 34 -> set_flags([s EXCEPT !.acc = BitOr(s.acc, x)])
        [] opcode = 35 -> set_flags([s EXCEPT !.acc = BitXor(s.acc, x)])
        [] opcode = 36 -> AccFrom(add_and_set_flags(s, x, s.acc))
        [] opcode = 37 -> subtract_and_set_flags(s, x)
        [] opcode = 38 -> F3850_input(s, x, y)
        [] opcode = 39 -> F3850_output(s, x)
        [] opcode \in {40, 41} -> [s EXCEPT !.acc = x]
        [] opcode \in {42, 43, 44, 47} -> s
        [] opcode \in 48..95 -> F3850_scratchpad(s, opcode)
        [] opcode \in 96..103 -> [s EXCEPT !.isar = (s.isar % 8) + (opcode % 8) * 8]
        [] opcode \in 104..111 ->
             [s EXCEPT !.isar = (s.isar \div 8) * 8 + (opcode % 8)]
        [] opcode \in 112..127 -> [s EXCEPT !.acc = opcode % 16]
        [] opcode \in 128..135 -> F3850_branch(s, x, build)
        [] opcode = 136 -> AccFrom(add_and_set_flags(s, s.acc, x))
        [] opcode = 137 -> AccFrom(add_bcd_and_set_flags(s, x))
        [] opcode = 138 -> set_flags([s EXCEPT !.acc = BitAnd(s.acc, x)])
        [] opcode = 139 -> set_flags([s EXCEPT !.acc = BitOr(s.acc, x)])
        [] opcode = 140 -> set_flags([s EXCEPT !.acc = BitXor(s.acc, x)])
        [] opcode = 141 -> subtract_and_set_flags(s, x)
        [] opcode = 142 -> s
        [] opcode \in 143..159 -> F3850_branch(s, x, build)
        [] opcode \in 160..175 -> F3850_input(s, opcode % 16, x)
        [] opcode \in 176..191 -> F3850_output(s, opcode % 16)
        [] opcode \in 192..255 -> F3850_register_arith(s, opcode)
        [] OTHER -> [s EXCEPT !.aborted = TRUE]

\* F3850::new, and how the crate was compiled; last holds the opcode of the
\* last cycle and what the board answered
InitF8 ==
  \E build \in {"debug", "release"} :
    f8 = [built |-> TRUE, build |-> build, chip |-> F3850_new, instrs |-> 0,
          last |-> [opcode |-> 0, x |-> 0, y |-> 0]]

InitOnF8 ==
  /\ InitF8 /\ IdleArith /\ Idle4004 /\ IdleAlu /\ IdleTms /\ Idle8080
  /\ sh64 = Unbuilt /\ pulsed = Unbuilt /\ hprom = Unbuilt /\ indexer = Unbuilt
  /\ cnt = Unbuilt /\ board = Unbuilt

\* F3850::run_cycle on a board that holds one of the opcodes and answers
\* with any of the bytes xs and ys
F8_RunCycle(opcodes, xs, ys) ==
  /\ f8.built /\ ~f8.chip.aborted
  /\ \E opcode \in opcodes, x \in xs, y \in ys :
       f8' = [f8 EXCEPT
                !.chip = F3850_run_cycle(f8.chip, opcode, x, y, f8.build),
                !.instrs = @ + 1,
                !.last = [opcode |-> opcode, x |-> x, y |-> y]]
  /\ UNCHANGED <<arith, vars4004, alu, tms, tmsenv, sh64, pulsed, hprom,
                 indexer, cnt, board, i8080>>

\* ---- compare on the F3850 ----

\* LI a or LM answered with a, then CI n or CM answered with n
NextCompare ==
  \/ f8.instrs = 0 /\ F8_RunCycle({32, 22}, Bytes, {0})
  \/ f8.instrs = 1 /\ F8_RunCycle({37, 141}, Bytes, {0})

SpecCompare == InitOnF8 /\ [][NextCompare]_vars

\* the value of a byte read as a signed 8-bit number
Signed8(b) == IF b >= 128 THEN b - 256 ELSE b

\* a step that runs CI or CM
CompareStep == f8.built /\ f8'.instrs = f8.instrs + 1 /\ f8'.last.opcode \in {37, 141}

\* C34: after CI or CM with operand n and accumulator a, the overflow flag is
\* true exactly when n - a on the signed values lies outside -128..127, and
\* the accumulator is unchanged.
C34_CompareOverflow ==
  [][ CompareStep =>
        LET n == f8'.last.x
            a == f8.chip.acc
        IN  /\ FlagBit(f8'.chip.flags, 3)
                 = (Signed8(n) - Signed8(a) \notin -128..127)
            /\ f8'.chip.acc = a ]_vars

\* the overflow flag is right when the low seven bits of n and a differ or
\* are all ones, and the opposite of right otherwise (n = a included); the
\* accumulator is unchanged
C34_OverflowButEqualLow ==
  [][ CompareStep =>
        LET n == f8'.last.x
            a == f8.chip.acc
            right == Signed8(n) - Signed8(a) \notin -128..127
        IN  /\ FlagBit(f8'.chip.flags, 3)
                 = IF n % 128 = a % 128 /\ n % 128 # 127 THEN ~right ELSE right
            /\ f8'.chip.acc = a ]_vars

\* ---- decimal add on the F3850 ----

\* the packed-BCD bytes, and the same bytes with 0x66 added
BCDBytes == {b \in Bytes : IsBCD(b)}

Plus66 == {(a + 102) % 256 : a \in BCDBytes}

\* LI b or NOP; LR R0, A; LI a + 0x66; then AMD answered with b, or ASD R0
NextDecimal ==
  \/ f8.instrs = 0 /\ (F8_RunCycle({32}, BCDBytes, {0}) \/ F8_RunCycle({43}, {0}, {0}))
  \/ f8.instrs = 1 /\ F8_RunCycle({80}, {0}, {0})
  \/ f8.instrs = 2 /\ F8_RunCycle({32}, Plus66, {0})
  \/ f8.instrs = 3 /\ (F8_RunCycle({137}, BCDBytes, {0}) \/ F8_RunCycle({208}, {0}, {0}))

SpecDecimal == InitOnF8 /\ [][NextDecimal]_vars

\* a step that runs AMD or ASD R0
DecimalStep == f8.built /\ f8'.instrs = f8.instrs + 1 /\ f8'.last.opcode \in {137, 208}

\* C35: for packed-BCD bytes a and b, with the accumulator holding a + 0x66
\* modulo 256, AMD or ASD with operand b leaves the packed-BCD byte of
\* (a + b) mod 100 and sets the carry flag exactly when a + b >= 100.
C35_DecimalAdd ==
  [][ DecimalStep =>
        LET a == (f8.chip.acc + 154) % 256
            b == IF f8'.last.opcode = 137 THEN f8'.last.x ELSE f8.chip.regs[0]
            sum == BCDValue(a) + BCDValue(b)
        IN  IsBCD(a) /\ IsBCD(b) =>
              /\ f8'.chip.acc = BCDByte(sum % 100)
              /\ FlagBit(f8'.chip.flags, 1) = (sum >= 100) ]_vars

\* 99 + 99 by ASD R0: 98 and the carry
C35_Witness ==
  /\ f8.built /\ f8.instrs = 4 /\ f8.last.opcode = 208
  /\ f8.chip.regs[0] = 153 /\ f8.chip.acc = 152 /\ FlagBit(f8.chip.flags, 1)

\* 27 + 45 by AMD: 72 and no carry
C35_WitnessMemory ==
  /\ f8.built /\ f8.instrs = 4 /\ f8.last.opcode = 137 /\ f8.last.x = 69
  /\ f8.chip.acc = 114 /\ ~FlagBit(f8.chip.flags, 1)

\* ---- ISAR on the F3850 ----

MaxIsarInstrs == 4

\* LR IS, A; LISU and LISL; DS, LR, AS, ASD, XS and NS through selectors 12,
\* 13 and 14
IsarOpcodes ==
  {11, 96, 99, 103, 104, 108, 111,
   60, 61, 62, 76, 77, 78, 92, 93, 94, 205, 222, 236, 253}

\* the reset field is public: the board sets it
F8_SetReset ==
  /\ f8.built /\ ~f8.chip.aborted /\ ~f8.chip.reset
  /\ f8' = [f8 EXCEPT !.chip.reset = TRUE]
  /\ UNCHANGED <<arith, vars4004, alu, tms, tmsenv, sh64, pulsed, hprom,
                 indexer, cnt, board, i8080>>

NextIsar ==
  \/ f8.instrs < MaxIsarInstrs /\ F8_RunCycle({32}, {255, 170}, {0})
  \/ f8.instrs < MaxIsarInstrs /\ F8_RunCycle(IsarOpcodes, {0}, {0})
  \/ f8.instrs < MaxIsarInstrs /\ F8_SetReset

SpecIsar == InitOnF8 /\ [][NextIsar]_vars

\* a step of run_cycle that executes the opcode (not the jump of a reset)
IsarStep == f8.built /\ f8'.instrs = f8.instrs + 1 /\ ~f8.chip.reset

\* the opcodes 0x30..0x5F and 0xC0..0xFF, which go through reg_or_isar
ThroughSelector(opcode) == opcode \in 48..95 \/ opcode \in 192..255

\* C36: ISAR is at most 63 in every state reachable from reset, so an access
\* through selector 12, 13 or 14 indexes inside the 64-byte scratchpad;
\* selectors 13 and 14 access the register addressed by ISAR before the
\* update and then step only the low 3 bits of ISAR by one modulo 8.
C36_IsarInRange ==
  [][ f8.built /\ f8'.built =>
        /\ f8.chip.isar <= 63 /\ f8'.chip.isar <= 63
        /\ IsarStep /\ ThroughSelector(f8'.last.opcode)
             /\ f8'.last.opcode % 16 \in {12, 13, 14} =>
             LET isar == f8.chip.isar
                 sel == f8'.last.opcode % 16
             IN  /\ ~f8'.chip.aborted
                 /\ f8'.chip.accessed = <<isar>>
                 /\ isar \in 0..63
                 /\ f8'.chip.isar \div 8 = isar \div 8
                 /\ f8'.chip.isar % 8 =
                      CASE sel = 12 -> isar % 8
                        [] sel = 13 -> (isar + 1) % 8
                        [] sel = 14 -> (isar + 7) % 8 ]_vars

\* LI 0xFF; LR IS, A; LR A, (IS)+: register 63 is read and ISAR wraps to 0o70
C36_Witness ==
  /\ f8.built /\ f8.instrs = 3 /\ f8.last.opcode = 77
  /\ f8.chip.accessed = <<63>> /\ f8.chip.isar = 56 /\ ~f8.chip.aborted

\* ---- the F3851 PSU and the F3852 DMI ----

ROM_SIZE == 1024

RAM_SIZE == 1028

\* the byte a ROM image holds at an offset; images are told apart by a number
RomImage(image, offset) == 1 + ((image * 37 + offset) % 255)

\* a memory with every cell 0; the cells that hold something else are listed
EmptyCells == [o \in {} |-> 0]

CellRead(cells, o) == IF o \in DOMAIN cells THEN cells[o] ELSE 0

CellWrite(cells, o, v) ==
  LET D == IF v = 0 THEN DOMAIN cells \ {o} ELSE DOMAIN cells \cup {o}
  IN  [k \in D |-> IF k = o THEN v ELSE cells[k]]

\* F3851::new
F3851_new(image, page, port_select) ==
  [kind |-> "F3851", image |-> image, cells |-> EmptyCells, size |-> ROM_SIZE,
   page_mask |-> page * 1024, pc0 |-> 0, pc1 |-> 0, dc0 |-> 0, dc1 |-> 0,
   ports |-> [q \in 0..3 |-> 0], port_mask |-> port_select * 4]

\* F3852::new
F3852_new(page, port_select) ==
  [kind |-> "F3852", image |-> 0, cells |-> EmptyCells, size |-> RAM_SIZE,
   page_mask |-> page * 1024, pc0 |-> 0, pc1 |-> 0, dc0 |-> 0, dc1 |-> 0,
   ports |-> [q \in 0..3 |-> 0], port_mask |-> port_select * 4]

\* `pointer >= self.page_mask && pointer < SIZE + self.page_mask`
Answers(chip, pointer) ==
  pointer >= chip.page_mask /\ pointer < chip.size + chip.page_mask

\* rom.read / ram.read at `pointer & 0b1111111111`
Stored(chip, pointer) ==
  IF chip.kind = "F3851" THEN RomImage(chip.image, pointer % 1024)
  ELSE CellRead(chip.cells, pointer % 1024)

\* what next_code, peak_code and next_data return for a pointer
ChipByte(chip, pointer) == IF Answers(chip, pointer) THEN Stored(chip, pointer) ELSE 0

\* `self.dc0 += 1` on a u16: 0xFFFF + 1 panics in a debug build and wraps in
\* a release build
CounterOverflows(counter, build) == counter = 65535 /\ build = "debug"

\* next_data: the chip afterwards (the byte is ChipByte(chip, chip.dc0))
Chip_next_data(chip) == [chip EXCEPT !.dc0 = (@ + 1) % 65536]

\* next_code: the chip afterwards (the byte is ChipByte(chip, chip.pc0))
Chip_next_code(chip) == [chip EXCEPT !.pc0 = (@ + 1) % 65536]

\* F3852::write_data
F3852_write_data(chip, data) ==
  [chip EXCEPT !.dc0 = (@ + 1) % 65536,
               !.cells = IF Answers(chip, chip.dc0)
                           THEN CellWrite(@, chip.dc0 % 1024, data) ELSE @]

\* the port test of write_port and read_port
PortSelected(chip, port) == port >= chip.port_mask /\ port < BitOr(3, chip.port_mask)

\* write_port
Chip_write_port(chip, port, value) ==
  IF PortSelected(chip, port) THEN [chip EXCEPT !.ports[port % 4] = value] ELSE chip

\* read_port
Chip_read_port(chip, port) ==
  IF PortSelected(chip, port) THEN chip.ports[port % 4] ELSE 0

\* ---- the Channel F board ----

\* Board::new: one F3851 per 1024-byte chunk of the BIOS and of the
\* cartridge, pages counted from 0, then the two F3852 of pages 0xA and 0xB
Board_new(bios_chunks, extra_chunks) ==
  [k \in 1..(bios_chunks + extra_chunks) |-> F3851_new(k, k - 1, k)]
    \o <<F3852_new(10, 9), F3852_new(11, 12)>>

\* F3850IO::set_dc0
IO_set_dc0(chips, upper, lower) ==
  [i \in DOMAIN chips |-> [chips[i] EXCEPT !.dc0 = upper * 256 + lower]]

\* F3850IO::jump
IO_jump(chips, upper, lower, push_pc) ==
  [i \in DOMAIN chips |->
     [chips[i] EXCEPT !.pc1 = IF push_pc THEN chips[i].pc0 ELSE @,
                      !.pc0 = upper * 256 + lower]]

\* F3850IO::next_data: the chips afterwards and the byte
IO_next_data(chips) ==
  <<[i \in DOMAIN chips |-> Chip_next_data(chips[i])],
    OrAll(DOMAIN chips, [i \in DOMAIN chips |-> ChipByte(chips[i], chips[i].dc0)])>>

\* F3850IO::next_code: the chips afterwards and the byte
IO_next_code(chips) ==
  <<[i \in DOMAIN chips |-> Chip_next_code(chips[i])],
    OrAll(DOMAIN chips, [i \in DOMAIN chips |-> ChipByte(chips[i], chips[i].pc0)])>>

\* F3850IO::write_data: the ROMs step their counter, the RAMs write
IO_write_data(chips, data) ==
  [i \in DOMAIN chips |->
     IF chips[i].kind = "F3851" THEN Chip_next_data(chips[i])
     ELSE F3852_write_data(chips[i], data)]

\* a 2 KB BIOS alone or with a 2 KB cartridge
InitChannelF ==
  \E extra_chunks \in {0, 2}, build \in {"debug", "release"} :
    f8 = [built |-> TRUE, build |-> build, chips |-> Board_new(2, extra_chunks),
          aborted |-> FALSE, ops |-> 0,
          last |-> [op |-> "new", pointer |-> 0, byte |-> 0]]

InitOnChannelF ==
  /\ InitChannelF /\ IdleArith /\ Idle4004 /\ IdleAlu /\ IdleTms /\ Idle8080
  /\ sh64 = Unbuilt /\ pulsed = Unbuilt /\ hprom = Unbuilt /\ indexer = Unbuilt
  /\ cnt = Unbuilt /\ board = Unbuilt

OffF8 ==
  UNCHANGED <<arith, vars4004, alu, tms, tmsenv, sh64, pulsed, hprom,
              indexer, cnt, board, i8080>>

\* DCI: the data counter of every chip is set
ChF_SetDc0 ==
  /\ f8.built /\ ~f8.aborted /\ f8.ops = 0
  /\ \E upper \in Bytes, lower \in Bytes :
       f8' = [f8 EXCEPT !.chips = IO_set_dc0(f8.chips, upper, lower),
                        !.ops = 1,
                        !.last = [op |-> "set_dc0", pointer |-> upper * 256 + lower,
                                  byte |-> 0]]
  /\ OffF8

\* JMP: the program counter of every chip is set
ChF_Jump ==
  /\ f8.built /\ ~f8.aborted /\ f8.ops = 0
  /\ \E upper \in Bytes, lower \in Bytes :
       f8' = [f8 EXCEPT !.chips = IO_jump(f8.chips, upper, lower, FALSE),
                        !.ops = 1,
                        !.last = [op |-> "jump", pointer |-> upper * 256 + lower,
                                  byte |-> 0]]
  /\ OffF8

\* LM: a data byte is read
ChF_NextData ==
  /\ f8.built /\ ~f8.aborted /\ f8.ops = 1 /\ f8.last.op = "set_dc0"
  /\ LET pointer == f8.chips[1].dc0
         r == IO_next_data(f8.chips)
     IN  f8' = IF CounterOverflows(pointer, f8.build)
                 THEN [f8 EXCEPT !.aborted = TRUE, !.ops = 2]
                 ELSE [f8 EXCEPT !.chips = r[1], !.ops = 2,
                                 !.last = [op |-> "next_data", pointer |-> pointer,
                                           byte |-> r[2]]]
  /\ OffF8

\* an opcode is fetched
ChF_NextCode ==
  /\ f8.built /\ ~f8.aborted /\ f8.ops = 1 /\ f8.last.op = "jump"
  /\ LET pointer == f8.chips[1].pc0
         r == IO_next_code(f8.chips)
     IN  f8' = IF CounterOverflows(pointer, f8.build)
                 THEN [f8 EXCEPT !.aborted = TRUE, !.ops = 2]
                 ELSE [f8 EXCEPT !.chips = r[1], !.ops = 2,
                                 !.last = [op |-> "next_code", pointer |-> pointer,
                                           byte |-> r[2]]]
  /\ OffF8

\* ST: a data byte is written
ChF_WriteData ==
  /\ f8.built /\ ~f8.aborted /\ f8.ops = 1 /\ f8.last.op = "set_dc0"
  /\ LET pointer == f8.chips[1].dc0
     IN  f8' = IF CounterOverflows(pointer, f8.build)
                 THEN [f8 EXCEPT !.aborted = TRUE, !.ops = 2]
                 ELSE [f8 EXCEPT !.chips = IO_write_data(f8.chips, 165), !.ops = 2,
                                 !.last = [op |-> "write_data", pointer |-> pointer,
                                           byte |-> 165]]
  /\ OffF8

NextChannelF ==
  \/ ChF_SetDc0
  \/ ChF_Jump
  \/ ChF_NextData
  \/ ChF_NextCode
  \/ ChF_WriteData

SpecChannelF == InitOnChannelF /\ [][NextChannelF]_vars

\* the chips that answer an address with stored data
Answering(chips, pointer) == {i \in DOMAIN chips : Answers(chips[i], pointer)}

\* a step that reads or writes memory and returns
MemoryStep ==
  /\ f8.built /\ f8'.ops = 2 /\ ~f8'.aborted
  /\ f8'.last.op \in {"next_data", "next_code", "write_data"}

\* at most one chip answers the address of the step, a byte read is that
\* chip's byte, and a write changes at most one chip's memory
ExclusiveAt(pointer) ==
  LET A == Answering(f8.chips, pointer)
  IN  /\ Cardinality(A) <= 1
      /\ f8'.last.op # "write_data" =>
           f8'.last.byte = IF A = {} THEN 0
                           ELSE Stored(f8.chips[CHOOSE i \in A : TRUE], pointer)
      /\ Cardinality({i \in DOMAIN f8.chips :
                        f8'.chips[i].cells # f8.chips[i].cells}) <= 1

\* C37: on the board as built by Board::new every 16-bit address is answered
\* with stored data by at most one PSU or DMI chip, so the or-combined code or
\* data byte is that chip's byte and a data write changes at most one chip's
\* memory.
C37_ExclusiveDecoding ==
  [][ MemoryStep => ExclusiveAt(f8'.last.pointer) ]_vars

\* the four addresses past the end of page 0xA, 0x2C00..0x2C03
RamTail == 11264..11267

\* decoding is exclusive everywhere but at 0x2C00..0x2C03, which both F3852
\* answer and where a write changes both
C37_ExclusiveButRamTail ==
  [][ MemoryStep =>
        LET pointer == f8'.last.pointer
            rams == {i \in DOMAIN f8.chips : f8.chips[i].kind = "F3852"}
        IN  IF pointer \in RamTail
              THEN /\ Answering(f8.chips, pointer) = rams
                   /\ f8'.last.op = "write_data" =>
                        \A i \in rams : f8'.chips[i].cells # f8.chips[i].cells
              ELSE ExclusiveAt(pointer) ]_vars

\* ---- the ports of an F3851 ----

\* F3851::new with any port_select of six bits
InitPsu ==
  \E port_select \in 0..63 :
    f8 = [built |-> TRUE, psu |-> F3851_new(1, 0, port_select),
          port_select |-> port_select, ops |-> 0,
          last |-> [op |-> "new", port |-> 0, value |-> 0, out |-> 0]]

InitOnPsu ==
  /\ InitPsu /\ IdleArith /\ Idle4004 /\ IdleAlu /\ IdleTms /\ Idle8080
  /\ sh64 = Unbuilt /\ pulsed = Unbuilt /\ hprom = Unbuilt /\ indexer = Unbuilt
  /\ cnt = Unbuilt /\ board = Unbuilt

\* write_port(port, value)
Psu_WritePort ==
  /\ f8.built /\ f8.ops = 0
  /\ \E port \in Bytes, value \in {90, 255} :
       f8' = [f8 EXCEPT !.psu = Chip_write_port(f8.psu, port, value),
                        !.ops = 1,
                        !.last = [op |-> "write_port", port |-> port,
                                  value |-> value, out |-> 0]]
  /\ OffF8

\* read_port of the port just written
Psu_ReadPort ==
  /\ f8.built /\ f8.ops = 1
  /\ f8' = [f8 EXCEPT !.ops = 2,
                      !.last = [op |-> "read_port", port |-> f8.last.port,
                                value |-> f8.last.value,
                                out |-> Chip_read_port(f8.psu, f8.last.port)]]
  /\ OffF8

NextPsu ==
  \/ Psu_WritePort
  \/ Psu_ReadPort

SpecPsu == InitOnPsu /\ [][NextPsu]_vars

\* write_port then read_port behave as on a window of the given ports: inside
\* it the value written is read back, outside it the write changes nothing
\* and the read returns 0
PortWindowIs(window) ==
  /\ f8.built /\ f8'.last.op = "write_port" /\ f8'.last.port \notin window
       => f8'.psu = f8.psu
  /\ f8.built /\ f8'.last.op = "read_port"
       => f8'.last.out = IF f8'.last.port \in window THEN f8'.last.value ELSE 0

\* C38: for a chip built with port_select s, write_port(p, v) followed by
\* read_port(p) returns v for each of the four ports 4*s .. 4*s+3; for every
\* port outside that window write_port changes nothing and read_port
\* returns 0.
C38_PortWindow ==
  [][ PortWindowIs((4 * f8.port_select) .. (4 * f8.port_select + 3)) ]_vars

\* the window the code answers is the three ports 4*s .. 4*s+2
C38_PortWindowOfThree ==
  [][ PortWindowIs((4 * f8.port_select) .. (4 * f8.port_select + 2)) ]_vars

(***************************************************************************)
(* The 8080, src/src/cpu/i8080.rs, on the 64 KB RAM of src/tests/test8080.rs *)
(***************************************************************************)

\* u8::overflowing_sub: the wrapped difference and whether it borrowed
overflowing_sub(x, y) == <<(x - y + 256) % 256, x < y>>

\* execute_add_carry: (result, carry, nibble carry)
execute_add_carry(byte1, byte2, carry) ==
  LET c == IF carry THEN 1 ELSE 0
      r1 == overflowing_add(byte1, c)
      r2 == overflowing_add(r1[1], byte2)
  IN  <<r2[1], r1[2] \/ r2[2], ((byte1 % 16) + (byte2 % 16) + c) > 9>>

\* execute_sub: (result, carry, nibble carry)
execute_sub(byte1, byte2) ==
  LET r == overflowing_sub(byte1, byte2)
  IN  <<r[1], r[2], (r[1] % 16) + (byte2 % 16) > 9>>

\* execute_sub_carry: (result, carry, nibble carry)
execute_sub_carry(byte1, byte2, carry) ==
  LET c == IF carry THEN 1 ELSE 0
      r1 == overflowing_sub(byte1, c)
      r2 == overflowing_sub(r1[1], byte2)
  IN  <<r2[1], r1[2] \/ r2[2], (r2[1] % 16) + (byte2 % 16) + c > 9>>

\* u8::count_ones
RECURSIVE count_ones(_)
count_ones(x) == IF x = 0 THEN 0 ELSE (x % 2) + count_ones(x \div 2)

\* the bits of the PSW: sign 7, zero 6, aux 4, parity 2, carry 0; the
\* accumulator is bits 8..15
SignBit == 7

ZeroBit == 6

AuxBit == 4

ParityBit == 2

CarryBit == 0

Acc(s) == s.psw \div 256

with_acc(s, value) == [s EXCEPT !.psw = value * 256 + (s.psw % 256)]

with_flag(s, k, b) == [s EXCEPT !.psw = WithFlag(s.psw, k, b)]

High(word) == word \div 256

Low(word) == word % 256

\* I8080::new on a memory of zeros
I8080_new(build) ==
  [sp |-> 65535, pc |-> 0, psw |-> 0, bc |-> 0, de |-> 0, hl |-> 0,
   interrupts_enabled |-> FALSE, mem |-> EmptyCells, build |-> build,
   aborted |-> FALSE]

Abort(s) == [s EXCEPT !.aborted = TRUE]

\* `+=` and `-=` on a u16: overflow panics in a debug build and wraps in a
\* release build
AddAssign(s, value, n) ==
  <<(value + n) % 65536, value + n > 65535 /\ s.build = "debug">>

SubAssign(s, value, n) ==
  <<(value - n + 65536) % 65536, value < n /\ s.build = "debug">>

\* RAM::read and RAM::write of a byte and of a little-endian word: the word
\* at 0xFFFF indexes past the slice, which panics
read_mem8(s, address) == CellRead(s.mem, address)

read_mem16_aborts(address) == address = 65535

read_mem16(s, address) ==
  IF read_mem16_aborts(address) THEN 0
  ELSE CellRead(s.mem, address) + 256 * CellRead(s.mem, address + 1)

write_mem8(s, address, value) == [s EXCEPT !.mem = CellWrite(@, address, value)]

write_mem16(s, address, value) ==
  IF read_mem16_aborts(address) THEN Abort(s)
  ELSE [s EXCEPT !.mem = CellWrite(CellWrite(@, address, value % 256),
                                   address + 1, value \div 256)]

\* CPU::next_code_byte: the chip afterwards and the byte
next_code_byte(s) ==
  LET r == AddAssign(s, s.pc, 1)
  IN  <<[s EXCEPT !.pc = r[1], !.aborted = @ \/ r[2]], read_mem8(s, s.pc)>>

\* CPU::next_code_word
next_code_word(s) ==
  LET r == AddAssign(s, s.pc, 2)
  IN  <<[s EXCEPT !.pc = r[1],
                  !.aborted = @ \/ r[2] \/ read_mem16_aborts(s.pc)],
        read_mem16(s, s.pc)>>

\* CPU::push
CPU_push(s, value) ==
  LET r == SubAssign(s, s.sp, 2)
  IN  IF r[2] THEN Abort(s)
      ELSE write_mem16([s EXCEPT !.sp = r[1]], r[1], value)

\* CPU::pop: the chip afterwards and the word
CPU_pop(s) ==
  LET r == AddAssign(s, s.sp, 2)
  IN  IF read_mem16_aborts(s.sp) \/ r[2] THEN <<Abort(s), 0>>
      ELSE <<[s EXCEPT !.sp = r[1]], read_mem16(s, s.sp)>>

read_reg(s, reg_index) ==
  CASE reg_index = 0 -> High(s.bc)
    [] reg_index = 1 -> Low(s.bc)
    [] reg_index = 2 -> High(s.de)
    [] reg_index = 3 -> Low(s.de)
    [] reg_index = 4 -> High(s.hl)
    [] reg_index = 5 -> Low(s.hl)
    [] reg_index = 6 -> read_mem8(s, s.hl)
    [] OTHER -> Acc(s)

write_reg(s, reg_index, value) ==
  CASE reg_index = 0 -> [s EXCEPT !.bc = value * 256 + Low(@)]
    [] reg_index = 1 -> [s EXCEPT !.bc = High(@) * 256 + value]
    [] reg_index = 2 -> [s EXCEPT !.de = value * 256 + Low(@)]
    [] reg_index = 3 -> [s EXCEPT !.de = High(@) * 256 + value]
    [] reg_index = 4 -> [s EXCEPT !.hl = value * 256 + Low(@)]
    [] reg_index = 5 -> [s EXCEPT !.hl = High(@) * 256 + value]
    [] reg_index = 6 -> write_mem8(s, s.hl, value)
    [] OTHER -> with_acc(s, value)

read_pair(s, pair_index) ==
  CASE pair_index = 0 -> s.bc
    [] pair_index = 1 -> s.de
    [] pair_index = 2 -> s.hl
    [] OTHER -> s.sp

write_pair(s, pair_index, value) ==
  CASE pair_index = 0 -> [s EXCEPT !.bc = value]
    [] pair_index = 1 -> [s EXCEPT !.de = value]
    [] pair_index = 2 -> [s EXCEPT !.hl = value]
    [] OTHER -> [s EXCEPT !.sp = value]

read_pair_push(s, pair_index) ==
  CASE pair_index = 0 -> s.bc
    [] pair_index = 1 -> s.de
    [] pair_index = 2 -> s.hl
    [] OTHER -> s.psw

write_pair_pop(s, pair_index, value) ==
  CASE pair_index = 0 -> [s EXCEPT !.bc = value]
    [] pair_index = 1 -> [s EXCEPT !.de = value]
    [] pair_index = 2 -> [s EXCEPT !.hl = value]
    [] OTHER -> [s EXCEPT !.psw = value]

test_condition(s, condition) ==
  CASE condition = 0 -> ~FlagBit(s.psw, ZeroBit)
    [] condition = 1 -> FlagBit(s.psw, ZeroBit)
    [] condition = 2 -> ~FlagBit(s.psw, CarryBit)
    [] condition = 3 -> FlagBit(s.psw, CarryBit)
    [] condition = 4 -> ~FlagBit(s.psw, ParityBit)
    [] condition = 5 -> FlagBit(s.psw, ParityBit)
    [] condition = 6 -> ~FlagBit(s.psw, SignBit)
    [] OTHER -> FlagBit(s.psw, SignBit)

set_result_flags(s, result) ==
  with_flag(with_flag(with_flag(s, SignBit, result >= 128), ZeroBit, result = 0),
            ParityBit, count_ones(result) % 2 = 0)

\* u8::rotate_left(4) and rotate_index
rotate_left4(opcode) == (opcode % 16) * 16 + (opcode \div 16)

rotate_index(opcode) == (((opcode * 2) % 256) + (opcode \div 128)) % 8

\* the accumulator and the two flags of an arithmetic result, then the
\* result flags
WithArith(s, r, keep_acc) ==
  set_result_flags(
    with_flag(with_flag(IF keep_acc THEN s ELSE with_acc(s, r[1]), CarryBit, r[2]),
              AuxBit, r[3]),
    r[1])

\* INR and DCR with the carry written as ADD and SUB write it
inr_dcr_with_carry(s, index, decrement) ==
  LET byte == read_reg(s, index)
      r == IF decrement THEN execute_sub(byte, 1) ELSE execute_add(byte, 1)
  IN  set_result_flags(
        with_flag(with_flag(write_reg(s, index, r[1]), AuxBit, r[3]), CarryBit, r[2]),
        r[1])

\* the INR and DCR arms of decode0
inr_dcr(s, index, decrement) ==
  LET byte == read_reg(s, index)
      r == IF decrement THEN execute_sub(byte, 1) ELSE execute_add(byte, 1)
  IN  set_result_flags(with_flag(write_reg(s, index, r[1]), AuxBit, r[3]), r[1])

\* decode0, opcodes 0x00..0x3F
decode0(s, opcode0) ==
  LET opcode == rotate_left4(opcode0)
      hi == opcode \div 16
      lo == opcode % 16
      acc == Acc(s)
      carry == FlagBit(s.psw, CarryBit)
  IN  CASE hi \in {0, 8} -> s
        [] hi = 1 -> LET w == next_code_word(s)
                     IN  write_pair(w[1], lo, w[2])
        [] opcode = 32 -> write_mem8(s, s.bc, acc)
        [] opcode = 33 -> write_mem8(s, s.de, acc)
        [] opcode = 34 -> LET w == next_code_word(s)
                          IN  write_mem16(w[1], w[2], s.hl)
        [] opcode = 35 -> LET w == next_code_word(s)
                          IN  write_mem8(w[1], w[2], acc)
        [] hi = 3 -> write_pair(s, lo, (read_pair(s, lo) + 1) % 65536)
        [] hi \in {4, 12} -> inr_dcr(s, rotate_index(opcode), FALSE)
        [] hi \in {5, 13} -> inr_dcr(s, rotate_index(opcode), TRUE)
        [] hi \in {6, 14} -> LET b == next_code_byte(s)
                             IN  write_reg(b[1], rotate_index(opcode), b[2])
        [] opcode = 112 -> LET a == ((acc * 2) % 256) + (acc \div 128)
                           IN  with_flag(with_acc(s, a), CarryBit, a % 2 = 1)
        [] opcode = 113 -> with_flag(with_acc(s, ((acc * 2) % 256) + (IF carry THEN 1 ELSE 0)),
                                     CarryBit, acc >= 128)
        [] opcode = 114 ->
             LET r == execute_daa(acc, carry, FlagBit(s.psw, AuxBit))
             IN  WithArith(s, r, FALSE)
        [] opcode = 115 -> with_flag(s, CarryBit, TRUE)
        [] hi = 9 -> LET sum == s.hl + read_pair(s, lo)
                     IN  with_flag([s EXCEPT !.hl = sum % 65536], CarryBit, sum > 65535)
        [] opcode = 160 -> with_acc(s, read_mem8(s, s.bc))
        [] opcode = 161 -> with_acc(s, read_mem8(s, s.de))
        [] opcode = 162 ->
             LET w == next_code_word(s)
             IN  IF read_mem16_aborts(w[2]) THEN Abort(s)
                 ELSE [w[1] EXCEPT !.hl = read_mem16(s, w[2])]
        [] opcode = 163 -> LET w == next_code_word(s)
                           IN  with_acc(w[1], read_mem8(s, w[2]))
        [] hi = 11 -> write_pair(s, lo, (read_pair(s, lo) + 65535) % 65536)
        [] opcode = 240 -> with_flag(with_acc(s, (acc \div 2) + 128 * (acc % 2)),
                                     CarryBit, acc % 2 = 1)
        [] opcode = 241 -> with_flag(with_acc(s, (acc \div 2) + (IF carry THEN 128 ELSE 0)),
                                     CarryBit, acc % 2 = 1)
        [] opcode = 242 -> with_acc(s, 255 - acc)
        [] OTHER -> with_flag(s, CarryBit, ~carry)

\* decode2, opcodes 0x80..0xBF
decode2(s, opcode) ==
  LET byte == read_reg(s, opcode % 8)
      acc == Acc(s)
      carry == FlagBit(s.psw, CarryBit)
      group == (opcode \div 8) % 8
      r == CASE group = 0 -> execute_add(acc, byte)
             [] group = 1 -> execute_add_carry(acc, byte, carry)
             [] group = 2 -> execute_sub(acc, byte)
             [] group = 3 -> execute_sub_carry(acc, byte, carry)
             [] group = 4 -> <<BitAnd(acc, byte), FALSE, FALSE>>
             [] group = 5 -> <<BitXor(acc, byte), FALSE, FALSE>>
             [] group = 6 -> <<BitOr(acc, byte), FALSE, FALSE>>
             [] OTHER -> execute_sub(acc, byte)
  IN  WithArith(s, r, group = 7)

\* the immediate arithmetic of decode3: ADI, SUI, ANI, ORI, ACI, SBI, XRI, CPI
immediate(s, opcode) ==
  LET b == next_code_byte(s)
      t == b[1]
      byte == b[2]
      acc == Acc(s)
      carry == FlagBit(s.psw, CarryBit)
      r == CASE opcode = 108 -> execute_add(acc, byte)
             [] opcode = 109 -> execute_sub(acc, byte)
             [] opcode = 110 -> <<BitAnd(acc, byte), FALSE, FALSE>>
             [] opcode = 111 -> <<BitOr(acc, byte), FALSE, FALSE>>
             [] opcode = 236 -> execute_add_carry(acc, byte, carry)
             [] opcode = 237 -> execute_sub_carry(acc, byte, carry)
             [] opcode = 238 -> <<BitXor(acc, byte), FALSE, FALSE>>
             [] OTHER -> execute_sub(acc, byte)
  IN  WithArith(t, r, opcode = 239)

\* decode3, opcodes 0xC0..0xFF; answer is what the board returns for IN
decode3(s, opcode0, answer) ==
  LET opcode == rotate_left4(opcode0)
      hi == opcode \div 16
      lo == opcode % 16
      index == rotate_index(opcode)
  IN  CASE hi \in {0, 8} ->
             IF test_condition(s, index)
               THEN LET v == CPU_pop(s) IN [v[1] EXCEPT !.pc = v[2]]
               ELSE s
        [] hi = 1 -> LET v == CPU_pop(s) IN write_pair_pop(v[1], lo % 4, v[2])
        [] hi \in {2, 10} ->
             LET w == next_code_word(s)
             IN  IF test_condition(s, index) THEN [w[1] EXCEPT !.pc = w[2]] ELSE w[1]
        [] opcode \in {60, 188} ->
             LET w == next_code_word(s) IN [w[1] EXCEPT !.pc = w[2]]
        [] opcode = 61 -> next_code_byte(s)[1]
        [] opcode = 62 ->
             IF read_mem16_aborts(s.sp) THEN Abort(s)
             ELSE [write_mem16(s, s.sp, s.hl) EXCEPT !.hl = read_mem16(s, s.sp)]
        [] opcode = 63 -> [s EXCEPT !.interrupts_enabled = FALSE]
        [] hi \in {4, 12} ->
             LET w == next_code_word(s)
             IN  IF test_condition(s, index)
                   THEN [CPU_push(w[1], w[1].pc) EXCEPT !.pc = w[2]]
                   ELSE w[1]
        [] hi = 5 -> CPU_push(s, read_pair_push(s, lo % 4))
        [] hi = 6 -> immediate(s, opcode)
        [] hi \in {7, 15} -> [CPU_push(s, s.pc) EXCEPT !.pc = index * 8]
        [] opcode \in {156, 157} -> LET v == CPU_pop(s) IN [v[1] EXCEPT !.pc = v[2]]
        [] opcode = 158 -> [s EXCEPT !.pc = s.hl]
        [] opcode = 159 -> [s EXCEPT !.sp = s.hl]
        [] opcode = 189 -> with_acc(next_code_byte(s)[1], answer)
        [] opcode = 190 -> [s EXCEPT !.hl = s.de, !.de = s.hl]
        [] opcode = 191 -> [s EXCEPT !.interrupts_enabled = TRUE]
        [] hi = 13 ->
             LET w == next_code_word(s)
             IN  [CPU_push(w[1], w[1].pc) EXCEPT !.pc = w[2]]
        [] OTHER -> immediate(s, opcode)

\* I8080::run_cycle; a cycle that panics leaves the chip as it was, marked
I8080_run_cycle(s, answer) ==
  LET b == next_code_byte(s)
      t == b[1]
      opcode == b[2]
      top == opcode \div 64
      r == CASE top = 0 -> decode0(t, opcode)
             [] top = 1 -> write_reg(t, (opcode \div 8) % 8, read_reg(t, opcode % 8))
             [] top = 2 -> decode2(t, opcode)
             [] OTHER -> decode3(t, opcode, answer)
  IN  IF t.aborted \/ r.aborted THEN Abort(s) ELSE r

\* a memory that holds a program from address 0 on and zeros elsewhere
Loaded(program) ==
  LET D == {k \in 0..(Len(program) - 1) : program[k + 1] # 0}
  IN  [k \in D |-> program[k + 1]]

\* I8080::new with a program in memory; last is the opcode of the last cycle
\* and the registers before it
Init8080(programs) ==
  \E program \in programs, build \in {"debug", "release"} :
    i8080 = [built |-> TRUE,
             chip |-> [I8080_new(build) EXCEPT !.mem = Loaded(program)],
             instrs |-> 0,
             last |-> [opcode |-> 0, before |-> I8080_new(build)]]

Off8080 ==
  /\ IdleArith /\ Idle4004 /\ IdleAlu /\ IdleTms /\ IdleF8
  /\ sh64 = Unbuilt /\ pulsed = Unbuilt /\ hprom = Unbuilt /\ indexer = Unbuilt
  /\ cnt = Unbuilt /\ board = Unbuilt

\* I8080::run_cycle, for at most limit instructions
I8080_RunCycle(limit) ==
  /\ i8080.built /\ ~i8080.chip.aborted /\ i8080.instrs < limit
  /\ i8080' = [i8080 EXCEPT
                 !.chip = I8080_run_cycle(i8080.chip, 0),
                 !.instrs = @ + 1,
                 !.last = [opcode |-> read_mem8(i8080.chip, i8080.chip.pc),
                           before |-> [i8080.chip EXCEPT !.mem = EmptyCells]]]
  /\ UNCHANGED <<arith, vars4004, alu, tms, tmsenv, sh64, pulsed, hprom,
                 indexer, cnt, board, f8>>

\* ---- the stack pointer of the 8080 ----

MaxStackCycles == 4

\* a 16-bit operand as the two bytes that follow an opcode
WordBytes(w) == <<w % 256, w \div 256>>

\* POP B, D, H, PSW and RET; PUSH B, D, H, PSW, CALL 0x0040 and RST 1
PopOpcodes80 == {193, 209, 225, 241, 201}

PushOpcodes80 == {197, 213, 229, 245, 205, 207}

StackPointers == {0, 1, 2, 3, 256, 32768, 65533, 65534, 65535}

PairValues == {0, 4660, 65535}

\* one stack instruction right after reset; LXI SP then one stack
\* instruction; LXI SP, LXI rp, PUSH rp, POP rp; LXI SP, PUSH PSW, POP PSW
StackPrograms ==
  {<<op, 64, 0>> : op \in PopOpcodes80 \cup PushOpcodes80}
    \cup {<<49>> \o WordBytes(w) \o <<op, 64, 0>> :
            w \in StackPointers, op \in PopOpcodes80 \cup PushOpcodes80}
    \cup {<<49>> \o WordBytes(w) \o <<1 + 16 * rp>> \o WordBytes(v)
            \o <<197 + 16 * rp, 193 + 16 * rp>> :
            w \in StackPointers, rp \in 0..2, v \in PairValues}
    \cup {<<49>> \o WordBytes(w) \o <<62, v, 245, 241>> :
            w \in StackPointers, v \in {0, 255}}

InitOnStack80 == Init8080(StackPrograms) /\ Off8080

NextStack80 == I8080_RunCycle(MaxStackCycles)

SpecStack80 == InitOnStack80 /\ [][NextStack80]_vars

\* a cycle that runs one of the opcodes
Ran80(opcodes) ==
  /\ i8080.built /\ i8080'.instrs = i8080.instrs + 1
  /\ i8080'.last.opcode \in opcodes

\* PUSH rp then POP rp: SP and the pair are what they were before the PUSH
Restored ==
  LET rp == (i8080'.last.opcode - 193) \div 16
      was == i8080.last.before
      now == i8080'.chip
  IN  i8080'.last.opcode \in {193, 209, 225, 241}
        /\ i8080.last.opcode = i8080'.last.opcode + 4
        => /\ now.sp = was.sp
           /\ read_pair_push(now, rp) = read_pair_push(was, rp)

\* C39: pop with SP = 0xFFFF or 0xFFFE and push with SP = 0 or 1 complete
\* without aborting and move SP by 2 modulo 2^16 (POP or RET right after
\* reset leaves SP = 1); otherwise push decreases and pop increases SP by 2,
\* and PUSH rp followed by POP rp restores SP and the register pair.
C39_StackWraps ==
  [][ /\ Ran80(PopOpcodes80) =>
           /\ ~i8080'.chip.aborted
           /\ i8080'.chip.sp = (i8080.chip.sp + 2) % 65536
           /\ Restored
      /\ Ran80(PushOpcodes80) =>
           /\ ~i8080'.chip.aborted
           /\ i8080'.chip.sp = (i8080.chip.sp + 65534) % 65536 ]_vars

\* a pop or push aborts exactly when SP leaves 0..0xFFFF in a debug build or
\* the word lies at 0xFFFF on the 64 KB RAM; one that returns moves SP by 2
\* modulo 2^16, and PUSH rp followed by POP rp restores SP and the pair
C39_StackWrapsIfReturns ==
  [][ /\ Ran80(PopOpcodes80) =>
           LET sp == i8080.chip.sp
           IN  /\ i8080'.chip.aborted
                    = (sp = 65535 \/ (sp = 65534 /\ i8080.chip.build = "debug"))
               /\ ~i8080'.chip.aborted =>
                    i8080'.chip.sp = (sp + 2) % 65536 /\ Restored
      /\ Ran80(PushOpcodes80) =>
           LET sp == i8080.chip.sp
           IN  /\ i8080'.chip.aborted
                    = (sp = 1 \/ (sp = 0 /\ i8080.chip.build = "debug"))
               /\ ~i8080'.chip.aborted =>
                    i8080'.chip.sp = (sp + 65534) % 65536 ]_vars

\* a release build: LXI SP, 0xFFFE; POP B returns with SP = 0
C39_WitnessWrap ==
  /\ i8080.built /\ i8080.chip.build = "release" /\ ~i8080.chip.aborted
  /\ i8080.last.opcode = 193 /\ i8080.last.before.sp = 65534 /\ i8080.chip.sp = 0

\* LXI SP, 0x0100; LXI D, 0x1234; PUSH D; POP D
C39_WitnessRestored ==
  /\ i8080.built /\ ~i8080.chip.aborted /\ i8080.instrs = 4
  /\ i8080.last.opcode = 209 /\ i8080.chip.sp = 256 /\ i8080.chip.de = 4660
  /\ CellRead(i8080.chip.mem, 254) = 52 /\ CellRead(i8080.chip.mem, 255) = 18

\* ---- the flags of the 8080 ----

MaxFlagCycles == 6

\* INR r and DCR r; INX, DCX, MOV and MVI; DAD
IncOpcodes == {4 + 8 * r : r \in 0..7}

DecOpcodes == {5 + 8 * r : r \in 0..7}

NoFlagOpcodes ==
  {3 + 16 * rp : rp \in 0..3} \cup {11 + 16 * rp : rp \in 0..3}
    \cup (64..127) \cup {6 + 8 * r : r \in 0..7}

DadOpcodes == {9 + 16 * rp : rp \in 0..3}

\* accumulators and flag bytes the PSW is loaded with
PswValues ==
  {acc * 256 + flags : acc \in {0, 9, 15, 127, 128, 255},
                       flags \in {0, 1, 84, 213, 255}}

\* LXI SP, 0x0100; LXI B, psw; PUSH B; POP PSW; LXI H, h; the instruction,
\* followed by 0x5A (the operand of MVI)
FlagPrograms ==
  {<<49, 0, 1, 1>> \o WordBytes(psw) \o <<197, 241, 33>> \o WordBytes(h) \o <<op, 90>> :
     psw \in PswValues, h \in {512, 65535},
     op \in IncOpcodes \cup DecOpcodes \cup NoFlagOpcodes \cup DadOpcodes}

InitOnFlags80 == Init8080(FlagPrograms) /\ Off8080

NextFlags80 == I8080_RunCycle(MaxFlagCycles)

SpecFlags80 == InitOnFlags80 /\ [][NextFlags80]_vars

Flags(s) == s.psw % 256

\* C40: INR and DCR on any register or memory operand leave the carry flag
\* unchanged and set sign, zero, parity and auxiliary carry from the result;
\* INX, DCX, MOV and MVI change no flag; DAD changes only the carry flag.
C40_FlagsUntouched ==
  [][ /\ Ran80(IncOpcodes \cup DecOpcodes) =>
           LET was == i8080.chip
               now == i8080'.chip
               index == (i8080'.last.opcode \div 8) % 8
               old == read_reg(was, index)
               decrement == i8080'.last.opcode \in DecOpcodes
               result == IF decrement THEN (old + 255) % 256 ELSE (old + 1) % 256
               r == IF decrement THEN execute_sub(old, 1) ELSE execute_add(old, 1)
           IN  /\ ~now.aborted
               /\ read_reg(now, index) = result
               /\ FlagBit(now.psw, CarryBit) = FlagBit(was.psw, CarryBit)
               /\ FlagBit(now.psw, SignBit) = (result >= 128)
               /\ FlagBit(now.psw, ZeroBit) = (result = 0)
               /\ FlagBit(now.psw, ParityBit) = (count_ones(result) % 2 = 0)
               /\ FlagBit(now.psw, AuxBit) = r[3]
      /\ Ran80(NoFlagOpcodes) =>
           ~i8080'.chip.aborted /\ Flags(i8080'.chip) = Flags(i8080.chip)
      /\ Ran80(DadOpcodes) =>
           /\ ~i8080'.chip.aborted
           /\ Flags(i8080'.chip) \div 2 = Flags(i8080.chip) \div 2 ]_vars

\* INR A on 0xFF with only the carry set: zero, aux and parity are set and
\* the carry is still set
C40_Witness ==
  /\ i8080.built /\ i8080.instrs = 6 /\ i8080.last.opcode = 60
  /\ i8080.last.before.psw = 65281 /\ i8080.chip.psw = 85

\* DAD B that carries with no flag set before: only the carry is set
C40_WitnessDad ==
  /\ i8080.built /\ i8080.instrs = 6 /\ i8080.last.opcode = 9
  /\ Flags(i8080.last.before) = 0 /\ Flags(i8080.chip) = 1

====
